---- MODULE Spec2Model ----
(***************************************************************************)
(* graph-node: the subgraph registrar (core/src/subgraph/registrar.rs)     *)
(* over the Postgres entity store (store/postgres/src/store.rs).           *)
(*                                                                         *)
(* Entity ids are modelled as naturals so that the lexicographic sort of   *)
(* AbortUnless is a real sort: generated ids (Subgraph, SubgraphVersion)   *)
(* are the number of the call that generated them, deployment hashes       *)
(* (Qm1, Qm2) are the members of Hashes.  A transaction of                 *)
(* apply_entity_operations is one step: transactions are serialized.       *)
(***************************************************************************)
EXTENDS Integers, Sequences, FiniteSets, TLC

VARIABLES
    entities,    \* the entities table of the subgraph of subgraphs: <<type, id>> -> data
    bus,         \* change records of committed transactions, not yet fanned out
    pc,          \* per caller: the position in the registrar function it runs
    req,         \* per caller: the call's arguments and its generated entity id
    loc,         \* per caller: the locals of the registrar function
    ops,         \* per caller: the operation list built so far
    result,      \* per caller: the outcome of its latest call
    attempts,    \* per caller: apply_entity_operations calls made by the current call
    calls,       \* number of registrar calls issued so far
    subscriptions,  \* the store's subscriptions: per subscription, the changes sent to it
    node,        \* the registrar of this node: startup position, provider, event in hand
    entity_history,  \* the writes made with a block as event source, with the data before
    block_call,  \* the latest block call of the store: its arguments and outcome
    undo,        \* per deployment: the blocks transacted and not reverted, with the data before
    fanned,      \* the change records the fan-out task has processed while there are subscriptions
    externals,   \* HostExternals of the runtime module: block_hash, entity_operations
    handled,     \* the latest handle_ethereum_event: its outcome and what the guest read
    checked,     \* the latest AbortUnless operation applied on its own, with its outcome
    graphql,     \* a GraphQL subscription: how execute_subscription ended, and its two streams
    websocket,   \* the subscription server: the handshakes it answered
    returned,    \* the latest call of a function taken on its own: its input and its output
    subscribing  \* the subscriptions map by id, and the subscribe calls under way

vars == <<entities, bus, pc, req, loc, ops, result, attempts, calls, subscriptions, node, entity_history, block_call, undo, fanned, externals, handled, checked, graphql, websocket, returned, subscribing>>

\* What the block calls of the store keep besides the entities.
blockVars == <<entity_history, block_call, undo>>

\* What the runtime module and a single AbortUnless check keep.
runtimeVars == <<externals, handled, checked, graphql, websocket, returned, subscribing>>

\* What the servers of GraphQL queries and subscriptions keep.
serverVars == <<graphql, websocket, returned, subscribing>>

\* ------------------------------------------------------------------ bounds

\* Registrar calls issued in one behaviour.
MaxCalls == 2

\* ------------------------------------------------------------- value sets

Callers == {1, 2}
Names == {"x", "y"}
\* Deployment hashes Qm1 and Qm2.
Hashes == {101, 102}
Nodes == {"nodeA", "nodeB"}

\* Value::Null, as the value of Subgraph.currentVersion.
Null == 0

\* The hash of the genesis block, whose number is 0.
GenesisHash == "g"

SubgraphT == "Subgraph"
VersionT == "SubgraphVersion"
DeploymentT == "SubgraphDeployment"
AssignmentT == "SubgraphDeploymentAssignment"

\* ------------------------------------------------------------ sequences

\* An operator that uses an argument several times binds it first, as in
\* CHOOSE r \in {body(t) : t \in {argument}} : TRUE, which is body(argument).

RECURSIVE SetToSeq(_)
\* The members of a finite set of naturals in ascending order.
SetToSeq(S) ==
    IF S = {} THEN <<>>
    ELSE LET m == CHOOSE x \in S : \A y \in S : x <= y
         IN <<m>> \o SetToSeq(S \ {m})

RECURSIVE Insert(_, _)
\* x inserted into the ascending sequence s.
Insert(x, s) ==
    CHOOSE r \in {IF t = <<>> THEN <<x>>
                  ELSE IF x <= Head(t) THEN <<x>> \o t
                  ELSE <<Head(t)>> \o Insert(x, Tail(t)) : t \in {s}} : TRUE

RECURSIVE Sort(_)
\* Vec::sort: the same elements, duplicates kept, in ascending order.
Sort(s) ==
    CHOOSE r \in {IF t = <<>> THEN <<>> ELSE Insert(Head(t), Sort(Tail(t))) : t \in {s}} : TRUE

Range(s) == {s[i] : i \in 1..Len(s)}

\* ------------------------------------------------------------- the store

\* Option<Entity> as a sequence of length 0 or 1.
get_entity(ents, type, id) ==
    IF <<type, id>> \in DOMAIN ents THEN <<ents[<<type, id>>]>> ELSE <<>>

\* EntityFilter::Equal on one attribute; an absent attribute is null.
FilterEqual(data, attr, value) ==
    IF attr \in DOMAIN data THEN data[attr] = value ELSE value = Null

\* EntityFilter::In on one attribute.
FilterIn(data, attr, values) ==
    attr \in DOMAIN data /\ data[attr] \in values

\* A filter is Equal, In, or And of Equal filters.
Matches(data, filter) ==
    CASE filter.kind = "Equal" -> FilterEqual(data, filter.attr, filter.value)
      [] filter.kind = "In" -> FilterIn(data, filter.attr, filter.values)
      [] filter.kind = "And" ->
            \A i \in 1..Len(filter.filters) :
                FilterEqual(data, filter.filters[i].attr, filter.filters[i].value)

Equal(attr, value) == [kind |-> "Equal", attr |-> attr, value |-> value]
In(attr, values) == [kind |-> "In", attr |-> attr, values |-> values]
And(filters) == [kind |-> "And", filters |-> filters]
Query(type, filter) == [entity_type |-> type, filter |-> filter]

\* The ids of the rows of the query's type that pass its filter.
MatchingIds(ents, query) ==
    {k[2] : k \in {k \in DOMAIN ents :
                     /\ k[1] = query.entity_type
                     /\ Matches(ents[k], query.filter)}}

\* A query with order_by: the attribute and the direction.
OrderedQuery(type, filter, order_by, order_direction) ==
    [entity_type |-> type, filter |-> filter, order_by |-> order_by,
     order_direction |-> order_direction]

RECURSIVE InsertBy(_, _, _)
\* The entity put into a list that ascends in the attribute.
InsertBy(entity, list, attr) ==
    CHOOSE r \in {IF t = <<>> THEN << entity >>
                  ELSE IF entity[attr] <= Head(t)[attr] THEN << entity >> \o t
                  ELSE << Head(t) >> \o InsertBy(entity, Tail(t), attr) : t \in {list}} : TRUE

RECURSIVE SortBy(_, _)
\* ORDER BY attr ASC.
SortBy(list, attr) ==
    CHOOSE r \in {IF t = <<>> THEN <<>>
                  ELSE InsertBy(Head(t), SortBy(Tail(t), attr), attr) : t \in {list}} : TRUE

Reverse(list) == [i \in 1..Len(list) |-> list[Len(list) + 1 - i]]

\* LIMIT first OFFSET skip on the rows of a query.
Limit(rows, range) ==
    SubSeq(rows, range.skip + 1,
           IF range.skip + range.first < Len(rows) THEN range.skip + range.first ELSE Len(rows))

\* The entities a query returns: in the order of its order_by when it has
\* one, else in an order of the database's choosing, here that of the ids;
\* of these the rows of its range when it has one.
execute_query(ents, query) ==
    CHOOSE rows \in
        {IF "range" \in DOMAIN query THEN Limit(ordered, query.range) ELSE ordered :
            ordered \in
                {LET list == [i \in 1..Len(ids) |-> ents[<<query.entity_type, ids[i]>>]]
                 IN IF "order_by" \notin DOMAIN query THEN list
                    ELSE IF query.order_direction = "Descending" THEN Reverse(SortBy(list, query.order_by))
                    ELSE SortBy(list, query.order_by) : ids \in {SetToSeq(MatchingIds(ents, query))}}} : TRUE

\* entity.id() of each entity of a list.
Ids(list) == [i \in 1..Len(list) |-> list[i].id]

\* EntityOperation::Set applied to the existing entity: attributes of data
\* overwrite, the others are kept.
Merge(existing, data) ==
    IF existing = <<>> THEN data
    ELSE [a \in DOMAIN existing[1] \cup DOMAIN data |->
            IF a \in DOMAIN data THEN data[a] ELSE existing[1][a]]

apply_set_operation(ents, key, data) ==
    LET existing == get_entity(ents, key[1], key[2])
        updated == Merge(existing, data)
    IN [k \in DOMAIN ents \cup {key} |-> IF k = key THEN updated ELSE ents[k]]

apply_remove_operation(ents, key) ==
    [k \in DOMAIN ents \ {key} |-> ents[k]]

\* A variant that sorts both lists whether or not the query has an order_by.
compared_ids_always_sorted(ents, query, expected_entity_ids) ==
    [expected_entity_ids |-> Sort(expected_entity_ids),
     actual_entity_ids |-> Sort(Ids(execute_query(ents, query)))]

\* The two id lists apply_abort_unless_operation compares, and puts into
\* TransactionAbortError::AbortUnless: both sorted if and only if the query
\* has no order_by.
compared_ids(ents, query, expected_entity_ids) ==
    LET actual_entity_ids == Ids(execute_query(ents, query))
    IN IF "order_by" \notin DOMAIN query
       THEN [expected_entity_ids |-> Sort(expected_entity_ids),
             actual_entity_ids |-> Sort(actual_entity_ids)]
       ELSE [expected_entity_ids |-> expected_entity_ids,
             actual_entity_ids |-> actual_entity_ids]

\* TRUE when the transaction may continue: the ids the query returns equal the
\* expected ids.
apply_abort_unless_operation(ents, query, expected_entity_ids) ==
    \E ids \in {compared_ids(ents, query, expected_entity_ids)} :
        ids.actual_entity_ids = ids.expected_entity_ids

SetOp(type, id, data) == [kind |-> "Set", key |-> <<type, id>>, data |-> data]
RemoveOp(type, id) == [kind |-> "Remove", key |-> <<type, id>>]
AbortUnless(description, query, entity_ids) ==
    [kind |-> "AbortUnless", description |-> description, query |-> query,
     entity_ids |-> entity_ids]

\* The change record the row-level trigger emits for one operation, if any.
ChangeOf(ents, op) ==
    CASE op.kind = "Set" ->
            <<[entity_type |-> op.key[1], entity_id |-> op.key[2],
               operation |-> IF op.key \in DOMAIN ents THEN "Updated" ELSE "Added"]>>
      [] op.kind = "Remove" ->
            IF op.key \in DOMAIN ents
            THEN <<[entity_type |-> op.key[1], entity_id |-> op.key[2],
                    operation |-> "Removed"]>>
            ELSE <<>>
      [] op.kind = "AbortUnless" -> <<>>

\* One operation on the connection's view of the table.  failing: the
\* database rejects this Set or Remove.
apply_entity_operation(tx, op, failing) ==
    CASE op.kind = "AbortUnless" ->
            IF apply_abort_unless_operation(tx.ents, op.query, op.entity_ids)
            THEN tx
            ELSE [tx EXCEPT !.status = "AbortUnless",
                            !.error = << compared_ids(tx.ents, op.query, op.entity_ids) >>]
      [] op.kind = "Set" ->
            IF failing THEN [tx EXCEPT !.status = "StoreError"]
            ELSE [tx EXCEPT !.ents = apply_set_operation(tx.ents, op.key, op.data),
                            !.changes = @ \o ChangeOf(tx.ents, op)]
      [] op.kind = "Remove" ->
            IF failing THEN [tx EXCEPT !.status = "StoreError"]
            ELSE [tx EXCEPT !.ents = apply_remove_operation(tx.ents, op.key),
                            !.changes = @ \o ChangeOf(tx.ents, op)]

RECURSIVE ApplyFrom(_, _, _, _)
\* The loop of apply_entity_operations_with_conn from operation i on: it
\* stops at the first operation that fails (the ? operator).
ApplyFrom(tx, operations, i, failAt) ==
    IF i > Len(operations) THEN tx
    ELSE CHOOSE last \in
            {IF next.status # "ok" THEN [next EXCEPT !.at = i]
             ELSE ApplyFrom(next, operations, i + 1, failAt) :
                next \in {apply_entity_operation(tx, operations[i], i = failAt)}} : TRUE

apply_entity_operations_with_conn(ents, operations, failAt) ==
    ApplyFrom([status |-> "ok", at |-> 0, ents |-> ents, changes |-> <<>>, error |-> <<>>],
              operations, 1, failAt)

\* A variant without the transaction: the writes made before the failure stay.
apply_entity_operations_without_rollback(ents, operations, failAt) ==
    apply_entity_operations_with_conn(ents, operations, failAt)

\* A variant whose commit puts no change record on the stream.
apply_entity_operations_unannounced(ents, operations, failAt) ==
    LET tx == apply_entity_operations_with_conn(ents, operations, failAt)
    IN IF tx.status = "ok" THEN [tx EXCEPT !.changes = <<>>]
       ELSE [tx EXCEPT !.ents = ents, !.changes = <<>>]

\* conn.transaction(..): the writes and their change records take effect
\* when the closure returns Ok, and are rolled back when it returns Err.
apply_entity_operations(ents, operations, failAt) ==
    LET tx == apply_entity_operations_with_conn(ents, operations, failAt)
    IN IF tx.status = "ok" THEN tx
       ELSE [tx EXCEPT !.ents = ents, !.changes = <<>>]

\* ------------------------------------------- registrar: position and locals

LocInit ==
    [subgraph_entity_id |-> Null,
     current_version_id_opt |-> Null,
     previous_version_hash |-> Null,
     referencing_version_entity_ids |-> <<>>,
     subgraph_version_entities |-> <<>>,
     all_referencing_versions |-> <<>>]

\* The function goes on to its next statement with more locals and operations.
Goto(next, l, o) == [pc |-> next, loc |-> l, ops |-> o, status |-> "none"]

\* The function returns an error without calling apply_entity_operations.
Return(status, l) == [pc |-> "done", loc |-> l, ops |-> <<>>, status |-> status]

SubgraphByName(name) == Query(SubgraphT, Equal("name", name))

\* Store::find_one: <<>> when the query finds nothing, else one of the rows
\* found (the query is run with first = 1 and no order).
find_one(ents, query, pick) ==
    LET found == execute_query(ents, query)
    IN IF found = <<>> THEN <<>> ELSE <<found[pick]>>

\* The rows find_one may return.
Picks(ents, query) ==
    LET n == Cardinality(MatchingIds(ents, query))
    IN IF n = 0 THEN {1} ELSE 1..n

\* ------------------------------------------------------- create_subgraph

\* A variant without the guard on the name.
create_subgraph_ops_unguarded(name, entity_id) ==
    << SetOp(SubgraphT, entity_id,
             [id |-> entity_id, name |-> name, currentVersion |-> Null]) >>

\* The operation list of create_subgraph.
create_subgraph_ops(name, entity_id) ==
    << AbortUnless("Subgraph entity should not exist", SubgraphByName(name), <<>>),
       SetOp(SubgraphT, entity_id,
             [id |-> entity_id, name |-> name, currentVersion |-> Null]) >>

\* A variant that does not look at what find_one returned.
create_subgraph_find_unchecked(ents, r, l, o, pick) ==
    Goto("commit", l, o \o create_subgraph_ops(r.name, r.id))

\* Check if this subgraph already exists: NameExists when it does, else the
\* operation list is built.
create_subgraph_find(ents, r, l, o, pick) ==
    LET subgraph_entity_opt == find_one(ents, SubgraphByName(r.name), pick)
    IN IF subgraph_entity_opt # <<>>
       THEN Return("NameExists", l)
       ELSE Goto("commit", l, o \o create_subgraph_ops(r.name, r.id))

\* ----------------------------------------------- create_subgraph_version

\* A variant whose guard is over the name only, not over currentVersion.
version_ops_guarding_name_only(name, subgraph_entity_id, current_version_id_opt, version_entity_id, hash) ==
    << AbortUnless("Subgraph entity must still exist, have same name",
                   SubgraphByName(name), <<subgraph_entity_id>>),
       SetOp(VersionT, version_entity_id,
             [id |-> version_entity_id, subgraph |-> subgraph_entity_id,
              deployment |-> hash]) >>

\* The guard on the Subgraph read and the new SubgraphVersion.
version_ops(name, subgraph_entity_id, current_version_id_opt, version_entity_id, hash) ==
    << AbortUnless("Subgraph entity must still exist, have same name and currentVersion",
                   Query(SubgraphT, And(<<Equal("name", name),
                                          Equal("currentVersion", current_version_id_opt)>>)),
                   <<subgraph_entity_id>>),
       SetOp(VersionT, version_entity_id,
             [id |-> version_entity_id, subgraph |-> subgraph_entity_id,
              deployment |-> hash]) >>

\* Look up subgraph entity by name.
create_subgraph_version_find(ents, r, l, o, pick) ==
    LET subgraph_entity_opt == find_one(ents, SubgraphByName(r.name), pick)
    IN IF subgraph_entity_opt = <<>>
       THEN Return("NameNotFound", l)
       ELSE LET subgraph_entity == subgraph_entity_opt[1]
                current_version_id_opt ==
                    IF "currentVersion" \in DOMAIN subgraph_entity
                    THEN subgraph_entity.currentVersion ELSE Null
            IN Goto("cv_get_deployment",
                    [l EXCEPT !.subgraph_entity_id = subgraph_entity.id,
                              !.current_version_id_opt = current_version_id_opt],
                    o \o version_ops(r.name, subgraph_entity.id, current_version_id_opt,
                                     r.id, r.hash))

\* The guard on the existence state of the entity keyed by the hash.
exists_guard(description, type, hash, entity_opt) ==
    AbortUnless(description, Query(type, Equal("id", hash)),
                IF entity_opt # <<>> THEN <<hash>> ELSE <<>>)

\* A variant that writes the new Deployment whether or not one exists.
deployment_ops_always_created(hash, deployment_entity_opt) ==
    << exists_guard("Subgraph deployment entity must continue to exist/not exist",
                    DeploymentT, hash, deployment_entity_opt),
       SetOp(DeploymentT, hash,
             [id |-> hash, failed |-> FALSE, synced |-> FALSE,
              latestEthereumBlockHash |-> GenesisHash,
              latestEthereumBlockNumber |-> 0]) >>

\* The guard on the Deployment and, when there is none, its creation.  The
\* head block number read from the chain store is left out of the entity.
deployment_ops(hash, deployment_entity_opt) ==
    << exists_guard("Subgraph deployment entity must continue to exist/not exist",
                    DeploymentT, hash, deployment_entity_opt) >>
    \o (IF deployment_entity_opt = <<>>
        THEN << SetOp(DeploymentT, hash,
                      [id |-> hash, failed |-> FALSE, synced |-> FALSE,
                       latestEthereumBlockHash |-> GenesisHash,
                       latestEthereumBlockNumber |-> 0]) >>
        ELSE <<>>)

\* Check if subgraph deployment already exists for this hash.
create_subgraph_version_get_deployment(ents, r, l, o) ==
    LET deployment_entity_opt == get_entity(ents, DeploymentT, r.hash)
    IN Goto(IF l.current_version_id_opt # r.hash /\ l.current_version_id_opt # Null
            THEN "cv_get_previous" ELSE "cv_get_assignment",
            l, o \o deployment_ops(r.hash, deployment_entity_opt))

\* Look up previous current version's hash.
create_subgraph_version_get_previous(ents, r, l, o) ==
    LET previous_version_entity == get_entity(ents, VersionT, l.current_version_id_opt)
    IN IF previous_version_entity = <<>>
       THEN Return("VersionMissing", l)
       ELSE LET previous_version_hash == previous_version_entity[1].deployment
            IN Goto(IF previous_version_hash # r.hash
                    THEN "cv_find_referencing" ELSE "cv_get_assignment",
                    [l EXCEPT !.previous_version_hash = previous_version_hash], o)

\* Find all subgraph versions that point to this hash.
create_subgraph_version_find_referencing(ents, r, l, o) ==
    LET referencing_version_entities ==
            execute_query(ents, Query(VersionT, Equal("deployment", l.previous_version_hash)))
    IN Goto("cv_find_current",
            [l EXCEPT !.referencing_version_entity_ids = Ids(referencing_version_entities)],
            o)

\* A variant that removes the previous assignment whenever a subgraph is found
\* with this hash as the current version.
previous_assignment_ops_when_any(subgraph_ids, previous_version_hash) ==
    IF Len(subgraph_ids) >= 1
    THEN << RemoveOp(AssignmentT, previous_version_hash) >>
    ELSE <<>>

\* The removal of the previous deployment's assignment, when this subgraph is
\* the only one found with this hash as the current version.
previous_assignment_ops(subgraph_ids, previous_version_hash) ==
    IF Len(subgraph_ids) = 1
    THEN << RemoveOp(AssignmentT, previous_version_hash) >>
    ELSE <<>>

\* Find all subgraphs that have one of these versions as currentVersion.
create_subgraph_version_find_current(ents, r, l, o) ==
    LET subgraphs_with_current_version_referencing_hash ==
            execute_query(ents, Query(SubgraphT,
                                      In("currentVersion",
                                         Range(l.referencing_version_entity_ids))))
    IN Goto("cv_get_assignment", l,
            o \o previous_assignment_ops(Ids(subgraphs_with_current_version_referencing_hash),
                                         l.previous_version_hash))

\* A variant that does not update Subgraph.currentVersion.
assignment_ops_without_current(hash, node_id, assignment_entity_opt, subgraph_entity_id, version_entity_id) ==
    << exists_guard("Subgraph assignment entity must continue to exist/not exist",
                    AssignmentT, hash, assignment_entity_opt) >>
    \o (IF assignment_entity_opt = <<>>
        THEN << SetOp(AssignmentT, hash, [id |-> hash, nodeId |-> node_id]) >>
        ELSE <<>>)

\* The guard on the Assignment, its creation when there is none, and the
\* update of Subgraph.currentVersion.
assignment_ops(hash, node_id, assignment_entity_opt, subgraph_entity_id, version_entity_id) ==
    << exists_guard("Subgraph assignment entity must continue to exist/not exist",
                    AssignmentT, hash, assignment_entity_opt) >>
    \o (IF assignment_entity_opt = <<>>
        THEN << SetOp(AssignmentT, hash, [id |-> hash, nodeId |-> node_id]) >>
        ELSE <<>>)
    \o << SetOp(SubgraphT, subgraph_entity_id, [currentVersion |-> version_entity_id]) >>

\* Check if assignment already exists for this hash.
create_subgraph_version_get_assignment(ents, r, l, o) ==
    LET assignment_entity_opt == get_entity(ents, AssignmentT, r.hash)
    IN Goto("commit", l,
            o \o assignment_ops(r.hash, r.node, assignment_entity_opt,
                                l.subgraph_entity_id, r.id))

\* -------------------------------------------------------- remove_subgraph

\* Find the subgraph entity.
remove_subgraph_find(ents, r, l, o, pick) ==
    LET subgraph_entity_opt == find_one(ents, SubgraphByName(r.name), pick)
    IN IF subgraph_entity_opt = <<>>
       THEN Return("NameNotFound", l)
       ELSE Goto("rm_find_versions",
                 [l EXCEPT !.subgraph_entity_id = subgraph_entity_opt[1].id],
                 o \o << AbortUnless("Subgraph entity must still exist",
                                     SubgraphByName(r.name),
                                     <<subgraph_entity_opt[1].id>>) >>)

VersionsOfSubgraph(subgraph_entity_id) ==
    Query(VersionT, Equal("subgraph", subgraph_entity_id))

\* Find subgraph version entities.
remove_subgraph_find_versions(ents, r, l, o) ==
    LET subgraph_version_entities ==
            execute_query(ents, VersionsOfSubgraph(l.subgraph_entity_id))
    IN Goto("rm_find_referencing",
            [l EXCEPT !.subgraph_version_entities = subgraph_version_entities],
            o \o << AbortUnless("Subgraph must have same set of versions",
                                VersionsOfSubgraph(l.subgraph_entity_id),
                                Ids(subgraph_version_entities)) >>)

\* v.deployment of each version of a list, as a set.
DeploymentsOf(version_entities) ==
    {version_entities[i].deployment : i \in 1..Len(version_entities)}

\* The versions of a list that are not deleted.
AfterDelete(version_entities, version_entity_ids_to_delete) ==
    SelectSeq(version_entities, LAMBDA v : v.id \notin version_entity_ids_to_delete)

\* A variant that leaves the first of the entities.
RemoveAll_but_first(type, ids) == [i \in 1..(Len(ids) - 1) |-> RemoveOp(type, ids[i + 1])]

\* A Remove operation for each of the ids.
RemoveAll(type, ids) == [i \in 1..Len(ids) |-> RemoveOp(type, ids[i])]

ReferencingVersions(referenced_subgraph_hashes) ==
    Query(VersionT, In("deployment", referenced_subgraph_hashes))

\* A variant that removes every deployment the deleted versions reference,
\* whatever other versions reference.
remove_deployments_ops_of_deleted(version_entities_to_delete, all_referencing_versions) ==
    LET referenced_subgraph_hashes == DeploymentsOf(version_entities_to_delete)
    IN << AbortUnless("Same set of subgraph versions must reference these subgraph hashes",
                      ReferencingVersions(referenced_subgraph_hashes),
                      Ids(all_referencing_versions)) >>
       \o RemoveAll(DeploymentT, SetToSeq(referenced_subgraph_hashes))

\* A variant that removes the versions before the guard on the versions that
\* reference their hashes.
remove_deployments_ops_after_versions(version_entities_to_delete, all_referencing_versions) ==
    LET version_entity_ids_to_delete == Range(Ids(version_entities_to_delete))
        referenced_subgraph_hashes == DeploymentsOf(version_entities_to_delete)
        all_referencing_versions_after_delete ==
            AfterDelete(all_referencing_versions, version_entity_ids_to_delete)
        subgraph_deployment_hashes_needing_deletion ==
            referenced_subgraph_hashes \ DeploymentsOf(all_referencing_versions_after_delete)
    IN RemoveAll(VersionT, Ids(version_entities_to_delete))
       \o << AbortUnless("Same set of subgraph versions must reference these subgraph hashes",
                         ReferencingVersions(referenced_subgraph_hashes),
                         Ids(all_referencing_versions)) >>
       \o RemoveAll(DeploymentT, SetToSeq(subgraph_deployment_hashes_needing_deletion))

\* remove_subgraph_versions, first half: the guard on the versions that
\* reference the hashes, and the removal of the deployments no version will
\* reference.
remove_deployments_ops(version_entities_to_delete, all_referencing_versions) ==
    LET version_entity_ids_to_delete == Range(Ids(version_entities_to_delete))
        referenced_subgraph_hashes == DeploymentsOf(version_entities_to_delete)
        all_referencing_versions_after_delete ==
            AfterDelete(all_referencing_versions, version_entity_ids_to_delete)
        subgraph_deployment_hashes_needing_deletion ==
            referenced_subgraph_hashes \ DeploymentsOf(all_referencing_versions_after_delete)
    IN << AbortUnless("Same set of subgraph versions must reference these subgraph hashes",
                      ReferencingVersions(referenced_subgraph_hashes),
                      Ids(all_referencing_versions)) >>
       \o RemoveAll(DeploymentT, SetToSeq(subgraph_deployment_hashes_needing_deletion))

remove_subgraph_find_referencing(ents, r, l, o) ==
    LET all_referencing_versions ==
            execute_query(ents, ReferencingVersions(DeploymentsOf(l.subgraph_version_entities)))
    IN Goto("rm_find_current",
            [l EXCEPT !.all_referencing_versions = all_referencing_versions],
            o \o remove_deployments_ops(l.subgraph_version_entities, all_referencing_versions))

CurrentIn(version_ids) == Query(SubgraphT, In("currentVersion", version_ids))

\* remove_subgraph_versions, second half: the guard on the subgraphs that have
\* a referencing version as current, the removal of the assignments no
\* current version will reference, and the removal of the versions.
remove_assignments_ops(version_entities_to_delete, all_referencing_versions, subgraphs_with_referencing_version_as_current) ==
    LET version_entity_ids_to_delete == Range(Ids(version_entities_to_delete))
        referenced_subgraph_hashes == DeploymentsOf(version_entities_to_delete)
        all_current_referencing_versions ==
            SelectSeq(all_referencing_versions,
                      LAMBDA v : \E i \in 1..Len(subgraphs_with_referencing_version_as_current) :
                          subgraphs_with_referencing_version_as_current[i].currentVersion = v.id)
        all_current_referencing_versions_after_delete ==
            AfterDelete(all_current_referencing_versions, version_entity_ids_to_delete)
        subgraph_assignment_hashes_needing_deletion ==
            referenced_subgraph_hashes
                \ DeploymentsOf(all_current_referencing_versions_after_delete)
    IN << AbortUnless("Same set of subgraphs must have these versions as current",
                      CurrentIn(Range(Ids(all_referencing_versions))),
                      Ids(subgraphs_with_referencing_version_as_current)) >>
       \o RemoveAll(AssignmentT, SetToSeq(subgraph_assignment_hashes_needing_deletion))
       \o RemoveAll(VersionT, Ids(version_entities_to_delete))

\* The second read of remove_subgraph_versions, and the removal of the
\* subgraph entity that ends the operation list of remove_subgraph.
remove_subgraph_find_current(ents, r, l, o) ==
    LET subgraphs_with_referencing_version_as_current ==
            execute_query(ents, CurrentIn(Range(Ids(l.all_referencing_versions))))
    IN Goto("commit", l,
            o \o remove_assignments_ops(l.subgraph_version_entities,
                                        l.all_referencing_versions,
                                        subgraphs_with_referencing_version_as_current)
              \o << RemoveOp(SubgraphT, l.subgraph_entity_id) >>)

\* ------------------------------------------------ one statement, one call

\* The statement at which each registrar function starts.
First(op) ==
    CASE op = "create_subgraph" -> "cs_find_subgraph"
      [] op = "create_subgraph_version" -> "cv_find_subgraph"
      [] op = "remove_subgraph" -> "rm_find_subgraph"

\* The statement at position at.pc, run against the table ents.
StepOf(ents, r, at, pick) ==
    CASE at.pc = "cs_find_subgraph" -> create_subgraph_find(ents, r, at.loc, at.ops, pick)
      [] at.pc = "cv_find_subgraph" ->
            create_subgraph_version_find(ents, r, at.loc, at.ops, pick)
      [] at.pc = "cv_get_deployment" ->
            create_subgraph_version_get_deployment(ents, r, at.loc, at.ops)
      [] at.pc = "cv_get_previous" ->
            create_subgraph_version_get_previous(ents, r, at.loc, at.ops)
      [] at.pc = "cv_find_referencing" ->
            create_subgraph_version_find_referencing(ents, r, at.loc, at.ops)
      [] at.pc = "cv_find_current" ->
            create_subgraph_version_find_current(ents, r, at.loc, at.ops)
      [] at.pc = "cv_get_assignment" ->
            create_subgraph_version_get_assignment(ents, r, at.loc, at.ops)
      [] at.pc = "rm_find_subgraph" -> remove_subgraph_find(ents, r, at.loc, at.ops, pick)
      [] at.pc = "rm_find_versions" -> remove_subgraph_find_versions(ents, r, at.loc, at.ops)
      [] at.pc = "rm_find_referencing" ->
            remove_subgraph_find_referencing(ents, r, at.loc, at.ops)
      [] at.pc = "rm_find_current" -> remove_subgraph_find_current(ents, r, at.loc, at.ops)

RECURSIVE Run(_, _, _)
\* The statements of a registrar function from position at up to its call of
\* apply_entity_operations or its early return, when no other transaction
\* commits meanwhile: every read sees the same table.
Run(ents, r, at) ==
    IF at.pc \in {"commit", "done"} THEN at ELSE Run(ents, r, StepOf(ents, r, at, 1))

\* The positions of the operation list at which the database can fail.
WriteIndexes(operations) ==
    {i \in 1..Len(operations) : operations[i].kind \in {"Set", "Remove"}}

\* A whole registrar call that overlaps no other: its reads, then its
\* transaction.  resolved: SubgraphManifest::resolve succeeds (it is called
\* by create_subgraph_version only).
Alone(ents, r, resolved, failAt) ==
    LET at == IF resolved THEN Run(ents, r, Goto(First(r.op), LocInit, <<>>))
              ELSE Return("ResolveError", LocInit)
        tx == apply_entity_operations(ents, at.ops, failAt)
    IN IF at.pc = "done"
       THEN [status |-> at.status, at |-> 0, ents |-> ents, changes |-> <<>>,
             loc |-> at.loc, ops |-> <<>>, attempts |-> 0]
       ELSE [status |-> tx.status, at |-> tx.at, ents |-> tx.ents, changes |-> tx.changes,
             loc |-> at.loc, ops |-> at.ops, attempts |-> 1]

Request(op, name, hash, node_id, id) ==
    [op |-> op, name |-> name, hash |-> hash, node |-> node_id, id |-> id]

\* The calls that built the registry the concurrent callers start from.
SetupScript ==
    << Request("create_subgraph", "x", Null, "", 1),
       Request("create_subgraph_version", "x", 101, "nodeA", 2),
       Request("create_subgraph", "y", Null, "", 3),
       Request("create_subgraph_version", "y", 101, "nodeA", 4) >>

RECURSIVE StoreAfter(_, _, _)
\* The table after the calls i.. of a script, run one after another.
StoreAfter(ents, script, i) ==
    IF i > Len(script) THEN ents
    ELSE StoreAfter(Alone(ents, script[i], TRUE, 0).ents, script, i + 1)

\* The registries after 0, 1, .. calls of the setup script.
SetupStores ==
    {StoreAfter(<<>>, SubSeq(SetupScript, 1, k), 1) : k \in 0..Len(SetupScript)}

\* ------------------------------------------------------------- callers

NoRequest == Request("none", "", Null, "", Null)
NoResult == [status |-> "none", at |-> 0]

\* What is kept of the locals once the call has returned: the Subgraph read.
Reads(l) ==
    [LocInit EXCEPT !.subgraph_entity_id = l.subgraph_entity_id,
                    !.current_version_id_opt = l.current_version_id_opt]

\* No AbortUnless operation was applied on its own yet.
NoCheck == [status |-> "none", before |-> <<>>, operations |-> <<>>, error |-> <<>>]

\* H256::zero(), the block hash of a module that has handled no event.
ZeroHash == "0"

\* HostExternals as WasmiModule::new makes them.
NewExternals == [block_hash |-> ZeroHash, entity_operations |-> <<>>]

\* No event was handled yet.
NoSubscription == [status |-> "none", request |-> <<>>, resolved |-> 0, sent |-> 0, source |-> <<>>, source_ended |-> FALSE, results |-> <<>>, ended |-> FALSE]
NewServer == [accepting |-> TRUE, handshakes |-> <<>>]
Idle == [change |-> <<>>, matches |-> {}, parked |-> 0]
NoSubscribers == [subscriptions |-> <<>>, callers |-> [t \in {1, 2} |-> [pc |-> "idle", id |-> 0, entities |-> {}, channel |-> 0]], channels |-> <<>>, task |-> Idle]
NoAnswer == [call |-> "none", input |-> <<>>, output |-> <<>>]
NotHandled == [status |-> "none", operations |-> <<>>, handler |-> <<>>, got |-> <<>>, block |-> <<>>, pending |-> <<>>, events |-> 0, left |-> <<>>, after |-> "none"]

\* The registrar of this node before start() is called: nothing subscribed,
\* the provider runs nothing.
\* No block call was made yet.
NoBlockCall ==
    [op |-> "none", status |-> "none", at |-> 0, subgraph_id |-> Null, block_ptr_from |-> <<>>, block_ptr_to |-> <<>>, operations |-> <<>>, undone |-> 0]

NodeInit ==
    [pc |-> "init", subgraph_ids |-> {}, running |-> {}, event |-> <<>>,
     provider_failed |-> FALSE, handled |-> 0,
     taken |-> <<>>, called |-> "none", answer |-> "none"]

\* No caller is in a call, no change is on the stream, the node is not started.
InitIdle ==
    /\ bus = <<>>
    /\ pc = [p \in Callers |-> "idle"]
    /\ req = [p \in Callers |-> NoRequest]
    /\ loc = [p \in Callers |-> LocInit]
    /\ ops = [p \in Callers |-> <<>>]
    /\ result = [p \in Callers |-> NoResult]
    /\ attempts = [p \in Callers |-> 0]
    /\ subscriptions = <<>>
    /\ node = NodeInit
    /\ block_call = NoBlockCall
    /\ fanned = <<>>
    /\ externals = NewExternals
    /\ handled = NotHandled
    /\ checked = NoCheck
    /\ graphql = NoSubscription
    /\ websocket = NewServer
    /\ returned = NoAnswer

\* No call was made yet, and nobody has subscribed.
InitCallers == InitIdle /\ subscribing = NoSubscribers

\* No block was transacted yet.
NoBlocks ==
    /\ entity_history = <<>>
    /\ undo = [d \in Hashes |-> <<>>]

\* Concurrent callers over a registry the setup script built.
Init ==
    /\ entities \in SetupStores
    /\ calls = Len(SetupScript)
    /\ InitCallers
    /\ NoBlocks

\* A caller that is not inside a call issues the next one.  generate_entity_id
\* gives each call an id no other call has.  A create_subgraph_version whose
\* manifest does not resolve returns at once.
Begin(p, op, name, hash, node_id, resolved) ==
    /\ pc[p] \in {"idle", "done"}
    /\ calls < Len(SetupScript) + MaxCalls
    /\ calls' = calls + 1
    /\ req' = [req EXCEPT ![p] = Request(op, name, hash, node_id, calls + 1)]
    /\ pc' = [pc EXCEPT ![p] = IF resolved THEN First(op) ELSE "done"]
    /\ loc' = [loc EXCEPT ![p] = LocInit]
    /\ ops' = [ops EXCEPT ![p] = <<>>]
    /\ result' = [result EXCEPT ![p] =
                     IF resolved THEN NoResult ELSE [status |-> "ResolveError", at |-> 0]]
    /\ attempts' = [attempts EXCEPT ![p] = 0]
    /\ UNCHANGED <<entities, bus, subscriptions, node>>
    /\ UNCHANGED <<blockVars, fanned, runtimeVars>>

create_subgraph_call(p, name) ==
    Begin(p, "create_subgraph", name, Null, "", TRUE)

create_subgraph_version_call(p, name, hash, node_id, resolved) ==
    Begin(p, "create_subgraph_version", name, hash, node_id, resolved)

remove_subgraph_call(p, name) ==
    Begin(p, "remove_subgraph", name, Null, "", TRUE)

\* Caller p runs the statement at label against the table as it is now.
Step(p, label, pick) ==
    /\ pc[p] = label
    /\ LET at == StepOf(entities, req[p],
                        [pc |-> label, loc |-> loc[p], ops |-> ops[p], status |-> "none"],
                        pick)
       IN /\ pc' = [pc EXCEPT ![p] = at.pc]
          /\ loc' = [loc EXCEPT ![p] = IF at.pc = "done" THEN Reads(at.loc) ELSE at.loc]
          /\ ops' = [ops EXCEPT ![p] = at.ops]
          /\ result' = [result EXCEPT ![p] =
                           IF at.pc = "done" THEN [status |-> at.status, at |-> 0] ELSE @]
    /\ UNCHANGED <<entities, bus, req, attempts, calls, subscriptions, node>>
    /\ UNCHANGED <<blockVars, fanned, runtimeVars>>

\* A step that starts with find_one by name.
FindStep(p, label) ==
    \E pick \in Picks(entities, SubgraphByName(req[p].name)) : Step(p, label, pick)

\* A variant that runs the function again when its transaction was aborted.
commit_retrying(p, failAt) ==
    /\ pc[p] = "commit"
    /\ failAt \in {0} \cup WriteIndexes(ops[p])
    /\ LET tx == apply_entity_operations(entities, ops[p], failAt)
           again == tx.status = "AbortUnless" /\ attempts[p] < 3
       IN /\ entities' = tx.ents
          /\ bus' = bus \o tx.changes
          /\ result' = [result EXCEPT ![p] =
                           IF again THEN @ ELSE [status |-> tx.status, at |-> tx.at]]
          /\ pc' = [pc EXCEPT ![p] = IF again THEN First(req[p].op) ELSE "done"]
          /\ loc' = [loc EXCEPT ![p] = IF again THEN LocInit ELSE Reads(@)]
    /\ attempts' = [attempts EXCEPT ![p] = @ + 1]
    /\ ops' = [ops EXCEPT ![p] = <<>>]
    /\ UNCHANGED <<req, calls, subscriptions, node>>
    /\ UNCHANGED <<blockVars, fanned, runtimeVars>>

\* store.apply_entity_operations(ops, EventSource::None)?, the last statement
\* of the three registrar functions: the outcome is returned to the caller.
\* failAt = 0: the database fails nowhere.
commit(p, failAt) ==
    /\ pc[p] = "commit"
    /\ failAt \in {0} \cup WriteIndexes(ops[p])
    /\ LET tx == apply_entity_operations(entities, ops[p], failAt)
       IN /\ entities' = tx.ents
          /\ bus' = bus \o tx.changes
          /\ result' = [result EXCEPT ![p] = [status |-> tx.status, at |-> tx.at]]
    /\ attempts' = [attempts EXCEPT ![p] = @ + 1]
    /\ pc' = [pc EXCEPT ![p] = "done"]
    /\ loc' = [loc EXCEPT ![p] = Reads(@)]
    /\ ops' = [ops EXCEPT ![p] = <<>>]
    /\ UNCHANGED <<req, calls, subscriptions, node>>
    /\ UNCHANGED <<blockVars, fanned, runtimeVars>>

\* The longest operation list: create_subgraph_version's.
FailPoints == 0..8

\* The node a caller deploys to in the concurrent runs.
NodeOf(p) == IF p = 1 THEN "nodeA" ELSE "nodeB"

RegistrarStep(p) ==
    \/ \E name \in Names : create_subgraph_call(p, name)
    \/ FindStep(p, "cs_find_subgraph")
    \/ \E name \in Names, hash \in Hashes, resolved \in BOOLEAN :
           create_subgraph_version_call(p, name, hash, NodeOf(p), resolved)
    \/ FindStep(p, "cv_find_subgraph")
    \/ Step(p, "cv_get_deployment", 1)
    \/ Step(p, "cv_get_previous", 1)
    \/ Step(p, "cv_find_referencing", 1)
    \/ Step(p, "cv_find_current", 1)
    \/ Step(p, "cv_get_assignment", 1)
    \/ \E name \in Names : remove_subgraph_call(p, name)
    \/ FindStep(p, "rm_find_subgraph")
    \/ Step(p, "rm_find_versions", 1)
    \/ Step(p, "rm_find_referencing", 1)
    \/ Step(p, "rm_find_current", 1)
    \/ \E failAt \in FailPoints : commit(p, failAt)

Next == \E p \in Callers : RegistrarStep(p)

\* Registrar calls of concurrent callers over one store.  The change records
\* of their commits stay on the listener's stream: no task consumes it here.
Spec == Init /\ [][Next]_vars

\* ------------------------------------------------- sequential callers

\* The most calls of a sequential run, after those of the setup script.
MaxSeqCalls == 3

\* Some(value) and None of an Ok result, and an Err result.
Some(value) == [status |-> "Ok", value |-> <<value>>]
None == [status |-> "Ok", value |-> <<>>]
Err == [status |-> "Err", value |-> <<>>]

\* SubgraphDeploymentStore::resolve_subgraph_name_to_id.
resolve_subgraph_name_to_id(ents, name) ==
    LET subgraph_entities == execute_query(ents, SubgraphByName(name))
    IN IF Len(subgraph_entities) = 0 THEN None
       ELSE IF Len(subgraph_entities) > 1 THEN Err
       ELSE LET subgraph_entity == subgraph_entities[1]
            IN IF "currentVersion" \notin DOMAIN subgraph_entity THEN Err
               ELSE IF subgraph_entity.currentVersion = Null THEN None
               ELSE LET version_entity_opt ==
                            get_entity(ents, VersionT, subgraph_entity.currentVersion)
                    IN IF version_entity_opt = <<>> THEN None
                       ELSE IF "deployment" \notin DOMAIN version_entity_opt[1] THEN Err
                       ELSE Some(version_entity_opt[1].deployment)

\* The buffer of the channel of a subscription: channel(100), scaled down.
ChannelBuffer == 2

\* Store::subscribe: a new subscription for a set of entity types, with the
\* channel to its receiver.  from and sent keep what the fan-out task had
\* processed before and what it has sent into the channel since.
Subscription(subscribed_entities) ==
    [entities |-> subscribed_entities, queue |-> <<>>, alive |-> TRUE, registered |-> TRUE,
     from |-> Len(fanned), sent |-> <<>>]

\* The subscription matches the change.
Subscribed(subscription, change) == change.entity_type \in subscription.entities

\* A variant that sends whatever the entity type of the change is.
send_unfiltered(subscription, change) ==
    IF ~subscription.registered THEN subscription
    ELSE IF subscription.alive
         THEN [subscription EXCEPT !.queue = Append(@, change), !.sent = Append(@, change)]
         ELSE [subscription EXCEPT !.registered = FALSE]

\* A variant that gives up when the buffer of the channel is full, as
\* try_send does.
send_unless_full(subscription, change) ==
    IF ~subscription.registered \/ ~Subscribed(subscription, change) THEN subscription
    ELSE IF ~subscription.alive THEN [subscription EXCEPT !.registered = FALSE]
    ELSE IF Len(subscription.queue) >= ChannelBuffer THEN subscription
    ELSE [subscription EXCEPT !.queue = Append(@, change), !.sent = Append(@, change)]

\* The change is written to the stream of a matching subscription: each send
\* is made with a clone of the sender, which the channel always lets enqueue
\* one message, so the change is enqueued even when the buffer is full.  A
\* subscription whose receiver was dropped is removed.
send(subscription, change) ==
    IF ~subscription.registered \/ ~Subscribed(subscription, change) THEN subscription
    ELSE IF subscription.alive
         THEN [subscription EXCEPT !.queue = Append(@, change), !.sent = Append(@, change)]
         ELSE [subscription EXCEPT !.registered = FALSE]

\* A variant that takes the latest change record off the stream first.
FanOut_latest_first ==
    /\ bus # <<>>
    /\ bus' = SubSeq(bus, 1, Len(bus) - 1)
    /\ subscriptions' = [i \in 1..Len(subscriptions) |-> send(subscriptions[i], bus[Len(bus)])]
    /\ UNCHANGED <<entities, pc, req, loc, ops, result, attempts, calls, node>>
    /\ fanned' = IF subscriptions = <<>> THEN fanned ELSE Append(fanned, bus[Len(bus)])
    /\ UNCHANGED <<blockVars, runtimeVars>>

\* handle_entity_changes: the fan-out task takes the next change record off
\* the listener's stream and sends it to every matching subscription.
FanOut ==
    /\ bus # <<>>
    /\ bus' = Tail(bus)
    /\ subscriptions' = [i \in 1..Len(subscriptions) |-> send(subscriptions[i], Head(bus))]
    /\ UNCHANGED <<entities, pc, req, loc, ops, result, attempts, calls, node>>
    /\ fanned' = IF subscriptions = <<>> THEN fanned ELSE Append(fanned, Head(bus))
    /\ UNCHANGED <<blockVars, runtimeVars>>

\* A whole registrar call of caller p, no other call running: the reads and
\* the transaction see one table.
call_alone(p, op, name, hash, node_id, resolved, failAt) ==
    /\ pc[p] \in {"idle", "done"}
    /\ \E out \in {Alone(entities, Request(op, name, hash, node_id, calls + 1),
                         resolved, failAt)} :
          /\ failAt \in {0} \cup WriteIndexes(out.ops)
          /\ entities' = out.ents
          /\ bus' = bus \o out.changes
          /\ req' = [req EXCEPT ![p] = Request(op, name, hash, node_id, calls + 1)]
          /\ result' = [result EXCEPT ![p] = [status |-> out.status, at |-> out.at]]
          /\ attempts' = [attempts EXCEPT ![p] = out.attempts]
          /\ loc' = [loc EXCEPT ![p] = Reads(out.loc)]
    /\ calls' = calls + 1
    /\ pc' = [pc EXCEPT ![p] = "done"]
    /\ ops' = [ops EXCEPT ![p] = <<>>]
    /\ UNCHANGED <<subscriptions, node>>
    /\ UNCHANGED <<blockVars, fanned, runtimeVars>>

create_subgraph_alone(p, name, failAt) ==
    call_alone(p, "create_subgraph", name, Null, "", TRUE, failAt)

create_subgraph_version_alone(p, name, hash, node_id, resolved, failAt) ==
    call_alone(p, "create_subgraph_version", name, hash, node_id, resolved, failAt)

remove_subgraph_alone(p, name, failAt) ==
    call_alone(p, "remove_subgraph", name, Null, "", TRUE, failAt)

\* The empty store, or a registry the setup script built from it.
InitSeq ==
    /\ entities \in SetupStores
    /\ calls = Len(SetupScript)
    /\ InitCallers
    /\ NoBlocks

\* The next call of the one caller.
SeqCall ==
    \/ \E name \in Names, failAt \in FailPoints : create_subgraph_alone(1, name, failAt)
    \/ \E name \in Names, hash \in Hashes, node_id \in Nodes, resolved \in BOOLEAN,
          failAt \in FailPoints :
           create_subgraph_version_alone(1, name, hash, node_id, resolved, failAt)
    \/ \E name \in Names, failAt \in FailPoints : remove_subgraph_alone(1, name, failAt)

NextSeq ==
    \/ bus = <<>> /\ calls < Len(SetupScript) + MaxSeqCalls /\ SeqCall
    \/ FanOut

\* Registrar calls one after another; the caller waits for the change stream
\* to drain before its next call.
SpecSeq == InitSeq /\ [][NextSeq]_vars

\* ------------------------------------------- the registrar of this node

\* The most registrar calls while the registrar of this node starts and runs,
\* after those of the setup script.
MaxNodeCalls == 2

\* The node_id of the registrar that is started.
ThisNode == "nodeA"

\* What a registrar call leaves alone.
registrarVars == <<entities, bus, pc, req, loc, ops, result, attempts, calls>>

\* SubgraphAssignmentProvider::start.  fails: the provider cannot start the
\* subgraph (its manifest does not resolve, its instance cannot be built).
provider_start(running, id, fails) ==
    IF id \in running THEN [result |-> "AlreadyRunning", running |-> running]
    ELSE IF fails THEN [result |-> "Error", running |-> running]
    ELSE [result |-> "Ok", running |-> running \cup {id}]

\* SubgraphAssignmentProvider::stop.
provider_stop(running, id, fails) ==
    IF id \notin running THEN [result |-> "NotRunning", running |-> running]
    ELSE IF fails THEN [result |-> "Error", running |-> running]
    ELSE [result |-> "Ok", running |-> running \ {id}]

AddEvent(subgraph_id) == [kind |-> "Add", subgraph_id |-> subgraph_id]
RemoveEvent(subgraph_id) == [kind |-> "Remove", subgraph_id |-> subgraph_id]

\* A variant that emits nothing for an Assignment of another node.
assignment_event_of_this_node_only(ents, entity_change) ==
    IF entity_change.operation \in {"Added", "Updated"}
    THEN LET entity_opt == get_entity(ents, AssignmentT, entity_change.entity_id)
         IN IF entity_opt # <<>> /\ entity_opt[1].nodeId = ThisNode
            THEN << AddEvent(entity_change.entity_id) >>
            ELSE <<>>
    ELSE << RemoveEvent(entity_change.entity_id) >>

\* A variant that does not read the Assignment: every Added or Updated change
\* becomes Add.
assignment_event_unread(ents, entity_change) ==
    IF entity_change.operation \in {"Added", "Updated"}
    THEN << AddEvent(entity_change.entity_id) >>
    ELSE << RemoveEvent(entity_change.entity_id) >>

\* The closure of assignment_events: the events one entity change becomes,
\* with the Assignment as the store has it when the change is taken.
assignment_event(ents, entity_change) ==
    IF entity_change.operation \in {"Added", "Updated"}
    THEN LET entity_opt == get_entity(ents, AssignmentT, entity_change.entity_id)
         IN IF entity_opt # <<>>
            THEN IF entity_opt[1].nodeId = ThisNode
                 THEN << AddEvent(entity_change.entity_id) >>
                 ELSE << RemoveEvent(entity_change.entity_id) >>
            ELSE <<>>
    ELSE << RemoveEvent(entity_change.entity_id) >>

\* start(), first step: assignment_events() subscribes to the changes of the
\* Assignment entities.  The stream is not polled yet.
subscribe ==
    /\ node.pc = "init"
    /\ subscriptions' = Append(subscriptions, Subscription({AssignmentT}))
    /\ node' = [node EXCEPT !.pc = "subscribed"]
    /\ UNCHANGED registrarVars
    /\ UNCHANGED <<blockVars, fanned, runtimeVars>>

\* start_assigned_subgraphs: the query for the assignments of this node, its
\* ids collected in a set.
find_assignments ==
    /\ node.pc = "subscribed"
    /\ node' = [node EXCEPT
                  !.pc = "starting",
                  !.subgraph_ids =
                      Range(Ids(execute_query(entities,
                                              Query(AssignmentT, Equal("nodeId", ThisNode)))))]
    /\ UNCHANGED <<registrarVars, subscriptions>>
    /\ UNCHANGED <<blockVars, fanned, runtimeVars>>

\* start_assigned_subgraphs: provider.start(id) for the next id of the set.
\* An error ends start(): the event stream is never consumed.
start_assigned_subgraph(fails) ==
    /\ node.pc = "starting"
    /\ \E id \in node.subgraph_ids :
          LET out == provider_start(node.running, id, fails)
          IN /\ node' = IF out.result = "Ok"
                        THEN [node EXCEPT !.running = out.running, !.subgraph_ids = @ \ {id},
                                          !.called = "initial start", !.answer = out.result]
                        ELSE [node EXCEPT !.pc = "failed", !.provider_failed = TRUE,
                                          !.called = "initial start", !.answer = out.result]
             /\ subscriptions' = IF out.result = "Ok" THEN subscriptions
                                 ELSE [subscriptions EXCEPT ![1].alive = FALSE]
    /\ UNCHANGED registrarVars
    /\ UNCHANGED <<blockVars, fanned, runtimeVars>>

\* start(), last step: the task that handles assignment events is spawned.
spawn_consumer ==
    /\ node.pc = "starting"
    /\ node.subgraph_ids = {}
    /\ node' = [node EXCEPT !.pc = "consuming"]
    /\ UNCHANGED <<registrarVars, subscriptions>>
    /\ UNCHANGED <<blockVars, fanned, runtimeVars>>

\* A variant that polls the stream before the assigned subgraphs are started.
receive_early ==
    /\ node.pc \in {"starting", "consuming"}
    /\ node.event = <<>>
    /\ subscriptions # <<>>
    /\ subscriptions[1].queue # <<>>
    /\ subscriptions' = [subscriptions EXCEPT ![1].queue = Tail(@)]
    /\ node' = [node EXCEPT !.event = assignment_event(entities, Head(subscriptions[1].queue)),
                            !.taken = << Head(subscriptions[1].queue) >>]
    /\ UNCHANGED registrarVars
    /\ UNCHANGED <<blockVars, fanned, runtimeVars>>

\* The consumer polls the stream: the next entity change is taken and turned
\* into its event, if any.
receive ==
    /\ node.pc = "consuming"
    /\ node.event = <<>>
    /\ subscriptions # <<>>
    /\ subscriptions[1].queue # <<>>
    /\ subscriptions' = [subscriptions EXCEPT ![1].queue = Tail(@)]
    /\ node' = [node EXCEPT !.event = assignment_event(entities, Head(subscriptions[1].queue)),
                            !.taken = << Head(subscriptions[1].queue) >>]
    /\ UNCHANGED registrarVars
    /\ UNCHANGED <<blockVars, fanned, runtimeVars>>

\* A variant in which an error of start ends the consumer as an error of stop
\* does.
handle_assignment_event_start_fatal(fails) ==
    /\ node.event # <<>>
    /\ LET event == node.event[1]
           out == IF event.kind = "Add"
                  THEN provider_start(node.running, event.subgraph_id, fails)
                  ELSE provider_stop(node.running, event.subgraph_id, fails)
       IN /\ node' = [node EXCEPT
                        !.running = out.running,
                        !.event = <<>>,
                        !.handled = @ + 1,
                        !.provider_failed = @ \/ out.result = "Error",
                        !.called = IF event.kind = "Add" THEN "start" ELSE "stop",
                        !.answer = out.result,
                        !.pc = IF out.result = "Error" THEN "failed" ELSE @]
          /\ subscriptions' = IF out.result = "Error"
                              THEN [subscriptions EXCEPT ![1].alive = FALSE]
                              ELSE subscriptions
    /\ UNCHANGED registrarVars
    /\ UNCHANGED <<blockVars, fanned, runtimeVars>>

\* handle_assignment_event: Add starts the subgraph, any error of start is
\* swallowed; Remove stops it, NotRunning is swallowed and any other error
\* ends the consumer.
handle_assignment_event(fails) ==
    /\ node.event # <<>>
    /\ LET event == node.event[1]
           out == IF event.kind = "Add"
                  THEN provider_start(node.running, event.subgraph_id, fails)
                  ELSE provider_stop(node.running, event.subgraph_id, fails)
       IN /\ node' = [node EXCEPT
                        !.running = out.running,
                        !.event = <<>>,
                        !.handled = @ + 1,
                        !.provider_failed = @ \/ out.result = "Error",
                        !.called = IF event.kind = "Add" THEN "start" ELSE "stop",
                        !.answer = out.result,
                        !.pc = IF event.kind = "Remove" /\ out.result = "Error"
                               THEN "failed" ELSE @]
          /\ subscriptions' = IF event.kind = "Remove" /\ out.result = "Error"
                              THEN [subscriptions EXCEPT ![1].alive = FALSE]
                              ELSE subscriptions
    /\ UNCHANGED registrarVars
    /\ UNCHANGED <<blockVars, fanned, runtimeVars>>

\* The registrar calls made while the node runs: each commits.  A call that
\* fails leaves the table and the stream of changes as they are.
NodeCall ==
    \/ \E name \in Names : create_subgraph_alone(1, name, 0)
    \/ \E name \in Names, hash \in Hashes, node_id \in Nodes : create_subgraph_version_alone(1, name, hash, node_id, TRUE, 0)
    \/ \E name \in Names : remove_subgraph_alone(1, name, 0)

NextNode ==
    \/ calls < Len(SetupScript) + MaxNodeCalls /\ NodeCall
    \/ FanOut
    \/ subscribe
    \/ find_assignments
    \/ \E fails \in BOOLEAN : start_assigned_subgraph(fails)
    \/ spawn_consumer
    \/ receive
    \/ \E fails \in BOOLEAN : handle_assignment_event(fails)

\* The registrar of this node starts while registrar calls commit.
SpecNode == InitSeq /\ [][NextNode]_vars

\* The provider is handed to the registrar as a shared reference: before
\* start() it may have been told to start a deployment already.
provider_started_before ==
    /\ node.pc = "init"
    /\ node.running = {}
    /\ \E id \in Hashes : node' = [node EXCEPT !.running = {id}]
    /\ UNCHANGED <<registrarVars, subscriptions>>
    /\ UNCHANGED <<blockVars, fanned, runtimeVars>>

NextShared ==
    \/ NextNode
    \/ provider_started_before

\* The registrar starts over a provider that may run a deployment already.
SpecShared == InitSeq /\ [][NextShared]_vars

\* -------------------------------------------------------- subscriptions

\* The most registrar calls while subscriptions come and go, after those of
\* the setup script.
MaxSubCalls == 2

\* The subscribers in the order they subscribe, each with the set of entity
\* types it asks for.
Subscribers == << {SubgraphT, VersionT}, {AssignmentT} >>

\* Store::subscribe, called by the next subscriber.
store_subscribe(subscribed_entities) ==
    /\ Len(subscriptions) < Len(Subscribers)
    /\ subscribed_entities = Subscribers[Len(subscriptions) + 1]
    /\ subscriptions' = Append(subscriptions, Subscription(subscribed_entities))
    /\ UNCHANGED <<registrarVars, node, blockVars, fanned, runtimeVars>>

\* The receiver of a subscription polls its stream and gets the next change.
take(i) ==
    /\ subscriptions[i].alive
    /\ subscriptions[i].queue # <<>>
    /\ subscriptions' = [subscriptions EXCEPT ![i].queue = Tail(@)]
    /\ UNCHANGED <<registrarVars, node, blockVars, fanned, runtimeVars>>

\* The receiver of a subscription is dropped.
drop(i) ==
    /\ subscriptions[i].alive
    /\ subscriptions' = [subscriptions EXCEPT ![i].alive = FALSE]
    /\ UNCHANGED <<registrarVars, node, blockVars, fanned, runtimeVars>>

\* A variant of the sweeper that removes only the subscriptions a change
\* was sent to.
clean_up_used_subscriptions ==
    /\ \E i \in 1..Len(subscriptions) : subscriptions[i].registered /\ ~subscriptions[i].alive
    /\ subscriptions' =
          [i \in 1..Len(subscriptions) |->
              IF subscriptions[i].alive \/ subscriptions[i].sent = <<>> THEN subscriptions[i]
              ELSE [subscriptions[i] EXCEPT !.registered = FALSE]]
    /\ UNCHANGED <<registrarVars, node, blockVars, fanned, runtimeVars>>

\* periodically_clean_up_stale_subscriptions: the subscriptions whose
\* receiving end has gone are removed.
clean_up_stale_subscriptions ==
    /\ \E i \in 1..Len(subscriptions) : subscriptions[i].registered /\ ~subscriptions[i].alive
    /\ subscriptions' =
          [i \in 1..Len(subscriptions) |->
              IF subscriptions[i].alive THEN subscriptions[i]
              ELSE [subscriptions[i] EXCEPT !.registered = FALSE]]
    /\ UNCHANGED <<registrarVars, node, blockVars, fanned, runtimeVars>>

\* The registrar calls made while subscribers listen: each commits.
SubCall ==
    \/ \E name \in Names : create_subgraph_alone(1, name, 0)
    \/ \E name \in Names : create_subgraph_version_alone(1, name, 101, ThisNode, TRUE, 0)
    \/ \E name \in Names : remove_subgraph_alone(1, name, 0)

NextSub ==
    \/ calls < Len(SetupScript) + MaxSubCalls /\ SubCall
    \/ FanOut
    \/ \E subscribed_entities \in Range(Subscribers) : store_subscribe(subscribed_entities)
    \/ \E i \in 1..Len(subscriptions) : take(i)
    \/ \E i \in 1..Len(subscriptions) : drop(i)
    \/ clean_up_stale_subscriptions

\* The registry after the first call of the setup script: one Subgraph, no
\* version yet.
InitSub ==
    /\ entities = StoreAfter(<<>>, SubSeq(SetupScript, 1, 1), 1)
    /\ calls = Len(SetupScript)
    /\ InitCallers
    /\ NoBlocks

\* Subscribers come and go while registrar calls commit.
SpecSub == InitSub /\ [][NextSub]_vars

\* The sweeper is a task of its own on a five second interval: it runs again
\* and again whatever the other tasks do.
SpecSubLive == SpecSub /\ WF_vars(clean_up_stale_subscriptions)

\* ---------------------------------------------- the blocks of a deployment

\* The most block calls of the store after the setup script.
MaxBlockCalls == 3

\* The highest block number a block pointer carries.
MaxBlock == 2

\* The hashes of the blocks after the genesis block: two chains.
BlockHashes == {"a", "b"}

\* The width of a block number, u64 in the code, here a few bits: the
\* numbers of the blocks stay below the greatest number.
U64Bits == 3
U64Max == 2^U64Bits - 1

\* How the arithmetic of the build treats an overflow: a debug build panics,
\* a release build wraps.
Builds == {"debug", "release"}
wrapping_sub(a, b) == (a - b) % 2^U64Bits
wrapping_add(a, b) == (a + b) % 2^U64Bits

\* EthereumBlockPointer: the genesis pointer, the pointers of later blocks
\* and a pointer with the greatest block number.
genesis_block_ptr == [hash |-> GenesisHash, number |-> 0]
Pointers ==
    {genesis_block_ptr} \cup [hash : BlockHashes, number : 1..MaxBlock]
    \cup {[hash |-> "b", number |-> U64Max]}

\* The entity type of the data of a deployment, one per deployment: an entity
\* key carries its subgraph_id.
DataT(subgraph_id) == IF subgraph_id = 101 THEN "Thing@Qm1" ELSE "Thing@Qm2"

\* key.subgraph_id: Null stands for the subgraph of subgraphs.
SubgraphOf(key) ==
    IF \E d \in Hashes : key[1] = DataT(d)
    THEN CHOOSE d \in Hashes : key[1] = DataT(d)
    ELSE Null

\* The entities of a deployment's data.
DataOf(ents, subgraph_id) ==
    [k \in {k \in DOMAIN ents : SubgraphOf(k) = subgraph_id} |-> ents[k]]

\* Store::block_ptr: the pointer the SubgraphDeployment entity holds, if the
\* entity exists.
block_ptr(ents, subgraph_id) ==
    LET subgraph_entity == get_entity(ents, DeploymentT, subgraph_id)
    IN IF subgraph_entity = <<>> THEN <<>>
       ELSE << [hash |-> subgraph_entity[1].latestEthereumBlockHash,
                number |-> subgraph_entity[1].latestEthereumBlockNumber] >>

\* SubgraphDeploymentEntity::update_ethereum_block_pointer_operations: the
\* entity must still hold block_ptr_from; it is set to block_ptr_to.
update_ethereum_block_pointer_operations(subgraph_id, block_ptr_from, block_ptr_to) ==
    << AbortUnless("expected block pointer",
                   Query(DeploymentT,
                         And(<< Equal("id", subgraph_id),
                                Equal("latestEthereumBlockHash", block_ptr_from.hash),
                                Equal("latestEthereumBlockNumber", block_ptr_from.number) >>)),
                   << subgraph_id >>),
       SetOp(DeploymentT, subgraph_id,
             [latestEthereumBlockHash |-> block_ptr_to.hash,
              latestEthereumBlockNumber |-> block_ptr_to.number]) >>

\* One write to the table as the connection sees it.
Write(ents, op) ==
    IF op.kind = "Set" THEN apply_set_operation(ents, op.key, op.data)
    ELSE IF op.kind = "Remove" THEN apply_remove_operation(ents, op.key)
    ELSE ents

RECURSIVE HistoryFrom(_, _, _, _)
\* The history rows the writes of an operation list leave, from operation i
\* on: each with the event source and the data the entity had before.
HistoryFrom(ents, operations, i, event_source) ==
    IF i > Len(operations) THEN <<>>
    ELSE LET op == operations[i]
             row == IF op.kind = "Set" \/ (op.kind = "Remove" /\ op.key \in DOMAIN ents)
                    THEN << [event_source |-> event_source, subgraph |-> SubgraphOf(op.key),
                             key |-> op.key,
                             data_before |-> get_entity(ents, op.key[1], op.key[2])] >>
                    ELSE <<>>
         IN row \o HistoryFrom(Write(ents, op), operations, i + 1, event_source)

\* A variant that applies the operations and the block pointer update in two
\* transactions, one after the other.
block_transaction_in_two_commits(ents, operations, pointer_operations, failAt) ==
    LET first == apply_entity_operations(ents, operations, failAt)
        second == apply_entity_operations(first.ents, pointer_operations, failAt - Len(operations))
    IN IF first.status # "ok" THEN first
       ELSE [second EXCEPT !.changes = first.changes \o @,
                           !.at = IF second.status = "ok" THEN 0 ELSE @ + Len(operations)]

\* transact_block_operations, its transaction: the block pointer update is
\* appended to the operations and the list is applied as one.
block_transaction(ents, operations, pointer_operations, failAt) ==
    apply_entity_operations(ents, operations \o pointer_operations, failAt)

\* The outcome of a block call: of a call that failed the arguments are not
\* kept.
BlockCall(op, subgraph_id, block_ptr_from, block_ptr_to, operations, tx, undone) ==
    [op |-> op, status |-> tx.status, at |-> tx.at, subgraph_id |-> subgraph_id,
     block_ptr_from |-> IF tx.status = "ok" THEN << block_ptr_from >> ELSE <<>>,
     block_ptr_to |-> IF tx.status = "ok" THEN << block_ptr_to >> ELSE <<>>,
     operations |-> IF tx.status = "ok" THEN operations ELSE <<>>, undone |-> undone]

\* A block call that panics at its sanity checks: nothing is written.
Panic(op, subgraph_id, block_ptr_from, block_ptr_to, operations) ==
    /\ block_call' = BlockCall(op, subgraph_id, block_ptr_from, block_ptr_to, operations,
                               [status |-> "panic", at |-> 0], 0)
    /\ UNCHANGED <<entities, bus, entity_history, undo>>

\* The sanity check on block numbers of transact_block_operations passes.
\* The subtraction is on u64: with block_ptr_to.number = 0 it overflows,
\* which panics in a debug build and wraps in a release build.
single_block(build, block_ptr_from, block_ptr_to) ==
    IF block_ptr_to.number = 0 /\ build = "debug" THEN FALSE
    ELSE block_ptr_from.number = wrapping_sub(block_ptr_to.number, 1)

\* The sanity check of revert_block_operations passes: its addition
\* overflows with block_ptr_to.number the greatest number.
single_block_back(build, block_ptr_from, block_ptr_to) ==
    IF block_ptr_to.number = U64Max /\ build = "debug" THEN FALSE
    ELSE block_ptr_from.number = wrapping_add(block_ptr_to.number, 1)

\* Store::transact_block_operations.
transact_block_operations(subgraph_id, block_ptr_from, block_ptr_to, operations, failAt) ==
    \E passes \in {single_block(build, block_ptr_from, block_ptr_to) : build \in Builds} :
    IF ~passes
    THEN Panic("transact_block_operations", subgraph_id, block_ptr_from, block_ptr_to, operations)
    ELSE IF \E i \in 1..Len(operations) : SubgraphOf(operations[i].key) # subgraph_id
    THEN Panic("transact_block_operations", subgraph_id, block_ptr_from, block_ptr_to, operations)
    ELSE \E tx \in {block_transaction(entities, operations,
                                      update_ethereum_block_pointer_operations(subgraph_id, block_ptr_from, block_ptr_to),
                                      failAt)} :
            /\ entities' = tx.ents
            /\ bus' = bus \o tx.changes
            /\ entity_history' =
                  IF tx.status = "ok"
                  THEN entity_history \o HistoryFrom(entities, operations, 1, block_ptr_to)
                  ELSE entity_history
            /\ undo' = IF tx.status = "ok"
                       THEN [undo EXCEPT ![subgraph_id] =
                               Append(@, [from |-> block_ptr_from, to |-> block_ptr_to,
                                          before |-> DataOf(entities, subgraph_id)])]
                       ELSE undo
            /\ block_call' = BlockCall("transact_block_operations", subgraph_id, block_ptr_from,
                                       block_ptr_to, operations, tx, 0)

\* Store::set_block_ptr_with_no_changes: the block pointer operations alone,
\* with no event source.
set_block_ptr_with_no_changes(subgraph_id, block_ptr_from, block_ptr_to, failAt) ==
    \E tx \in {apply_entity_operations(entities,
                                       update_ethereum_block_pointer_operations(subgraph_id, block_ptr_from, block_ptr_to),
                                       failAt)} :
       /\ entities' = tx.ents
       /\ bus' = bus \o tx.changes
       /\ undo' = IF tx.status = "ok" THEN [undo EXCEPT ![subgraph_id] = <<>>] ELSE undo
       /\ block_call' = BlockCall("set_block_ptr_with_no_changes", subgraph_id, block_ptr_from,
                                  block_ptr_to, <<>>, tx, 0)
       /\ UNCHANGED entity_history

\* The history rows a revert of the block undoes: those of the deployment
\* whose event source is the block.
Reverted(row, block, subgraph_id) ==
    row.event_source = block /\ row.subgraph = subgraph_id

\* The operation that gives an entity the data a history row has for it.
Restore(row) ==
    IF row.data_before = <<>> THEN RemoveOp(row.key[1], row.key[2])
    ELSE [kind |-> "Put", key |-> row.key, data |-> row.data_before[1]]

\* The entity is put back as it was, attributes that it did not have are not
\* kept.
Put(ents, op) ==
    IF op.kind = "Put"
    THEN [k \in DOMAIN ents \cup {op.key} |-> IF k = op.key THEN op.data ELSE ents[k]]
    ELSE Write(ents, op)

\* The change record of a restoring write.
RestoreChange(ents, op) ==
    IF op.kind = "Put" THEN ChangeOf(ents, SetOp(op.key[1], op.key[2], op.data))
    ELSE ChangeOf(ents, op)

RECURSIVE UndoFrom(_, _, _)
\* The rows are undone latest first, from row i down.
UndoFrom(tx, rows, i) ==
    IF i = 0 THEN tx
    ELSE UndoFrom([tx EXCEPT !.ents = Put(tx.ents, Restore(rows[i])),
                             !.changes = @ \o RestoreChange(tx.ents, Restore(rows[i]))],
                  rows, i - 1)

\* The revert_block function of the database: every write made to the
\* deployment's entities with the block as event source is undone.
revert_block(tx, history, block_ptr_from, subgraph_id) ==
    LET rows == SelectSeq(history, LAMBDA row : Reverted(row, block_ptr_from, subgraph_id))
    IN UndoFrom(tx, rows, Len(rows))

\* Store::revert_block_operations: in one transaction the block pointer
\* operations, then revert_block.  fails: the database rejects revert_block.
revert_block_operations(subgraph_id, block_ptr_from, block_ptr_to, failAt, fails) ==
    \E passes \in {single_block_back(build, block_ptr_from, block_ptr_to) : build \in Builds} :
    IF ~passes
    THEN Panic("revert_block_operations", subgraph_id, block_ptr_from, block_ptr_to, <<>>)
    ELSE \E moved \in {apply_entity_operations_with_conn(entities,
                           update_ethereum_block_pointer_operations(subgraph_id, block_ptr_from, block_ptr_to),
                           failAt)} :
         \E tx \in {IF moved.status # "ok" THEN [moved EXCEPT !.ents = entities, !.changes = <<>>]
                    ELSE IF fails THEN [moved EXCEPT !.status = "StoreError", !.at = 3,
                                                     !.ents = entities, !.changes = <<>>]
                    ELSE revert_block(moved, entity_history, block_ptr_from, subgraph_id)} :
         LET matched == /\ undo[subgraph_id] # <<>>
                        /\ undo[subgraph_id][Len(undo[subgraph_id])].from = block_ptr_to
                        /\ undo[subgraph_id][Len(undo[subgraph_id])].to = block_ptr_from
         IN /\ entities' = tx.ents
            /\ bus' = bus \o tx.changes
            /\ entity_history' =
                  IF tx.status = "ok"
                  THEN SelectSeq(entity_history,
                                 LAMBDA row : ~Reverted(row, block_ptr_from, subgraph_id))
                  ELSE entity_history
            /\ undo' = IF tx.status # "ok" THEN undo
                       ELSE IF matched
                       THEN [undo EXCEPT ![subgraph_id] = SubSeq(@, 1, Len(@) - 1)]
                       ELSE [undo EXCEPT ![subgraph_id] = <<>>]
            /\ block_call' = BlockCall("revert_block_operations", subgraph_id, block_ptr_from,
                                       block_ptr_to, <<>>, tx,
                                       IF tx.status = "ok" /\ matched
                                       THEN block_call.undone + 1 ELSE 0)

\* The values an entity of a deployment's data takes.
Values == {1, 2}

\* The ids of the entities of a deployment's data.
DataIds == {1}

\* The writes a mapping makes to the data of a deployment.
Writes(subgraph_id) ==
    {SetOp(DataT(subgraph_id), id, [id |-> id, value |-> v]) : id \in DataIds, v \in Values}
    \cup {SetOp(DataT(subgraph_id), id, [id |-> id, owner |-> v]) : id \in DataIds, v \in {1}}
    \cup {RemoveOp(DataT(subgraph_id), id) : id \in DataIds}

\* The operation lists of a block: none, one or two writes.
BlockOperations(subgraph_id) ==
    {<<>>} \cup {<<w>> : w \in Writes(subgraph_id)}
    \cup {<< SetOp(DataT(subgraph_id), 1, [id |-> 1, value |-> 2]), w >> : w \in Writes(subgraph_id)}

\* The operation lists a call is made with: any list of the block, or one
\* with an operation of another deployment, when the pointers pass the
\* sanity check in some build; two of them when they pass it in none.
OperationsFor(subgraph_id, block_ptr_from, block_ptr_to) ==
    IF \E build \in Builds : single_block(build, block_ptr_from, block_ptr_to)
    THEN BlockOperations(subgraph_id) \cup {<< RemoveOp(DataT(102), 1) >>}
    ELSE {<<>>, << SetOp(DataT(subgraph_id), 1, [id |-> 1, value |-> 2]) >>}

\* The deployments that have a block stream: those with a SubgraphDeployment
\* entity.
Deployments(ents) == {d \in Hashes : block_ptr(ents, d) # <<>>}

\* The pointer a block stream passes as block_ptr_from: the one it read from
\* the store, or a pointer of the first chain that the store has left since.
Expected(ents, subgraph_id) ==
    {p \in Pointers : << p >> = block_ptr(ents, subgraph_id) \/ (p.hash = "a" /\ p.number = 1)}

\* What a block call leaves alone.
callerVars == <<pc, req, loc, ops, result, attempts, subscriptions, node, fanned, runtimeVars>>

\* The next block call of the block stream of a deployment.
BlockStep ==
    /\ calls' = calls + 1
    /\ UNCHANGED callerVars
    /\ \E subgraph_id \in Deployments(entities), block_ptr_from \in Pointers, block_ptr_to \in Pointers :
          /\ block_ptr_from \in Expected(entities, subgraph_id)
          /\ \/ \E operations \in OperationsFor(subgraph_id, block_ptr_from, block_ptr_to) :
                   \E failAt \in {0, Len(operations) + 2} :
                      transact_block_operations(subgraph_id, block_ptr_from, block_ptr_to, operations, failAt)
             \/ \E failAt \in {0, 2} :
                   set_block_ptr_with_no_changes(subgraph_id, block_ptr_from, block_ptr_to, failAt)
             \/ \E failAt \in {0, 2}, fails \in BOOLEAN :
                   revert_block_operations(subgraph_id, block_ptr_from, block_ptr_to, failAt, fails)

NextBlock ==
    \/ bus = <<>> /\ calls < Len(SetupScript) + MaxBlockCalls /\ BlockStep
    \/ FanOut

\* The first block of deployment Qm1 and its one write.
FirstBlock == [hash |-> "a", number |-> 1]
FirstOperations == << SetOp(DataT(101), 1, [id |-> 1, value |-> 1]) >>

\* The registry after the setup script: deployment Qm1 is at the genesis
\* block and has no data yet, or its first block was transacted.
InitBlock ==
    /\ calls = Len(SetupScript)
    /\ InitCallers
    /\ \E registry \in {StoreAfter(<<>>, SetupScript, 1)} :
          \/ entities = registry /\ NoBlocks
          \/ /\ entities =
                   block_transaction(registry, FirstOperations,
                                     update_ethereum_block_pointer_operations(101, genesis_block_ptr, FirstBlock),
                                     0).ents
             /\ entity_history = HistoryFrom(registry, FirstOperations, 1, FirstBlock)
             /\ undo = [d \in Hashes |->
                          IF d = 101
                          THEN << [from |-> genesis_block_ptr, to |-> FirstBlock,
                                   before |-> DataOf(registry, 101)] >>
                          ELSE <<>>]

\* The block calls of the store over a registry the setup script built.
SpecBlock == InitBlock /\ [][NextBlock]_vars

\* Concurrent registrar calls over a registry whose deployment Qm1 may have
\* had its first block transacted.
SpecAdvanced == InitBlock /\ [][Next]_vars

\* ------------------------------------------------- the runtime module

\* The most calls of the block processor: events handled and blocks
\* committed.
MaxHostCalls == 2

\* subgraph.id of the module's configuration.
ModuleSubgraph == 101

\* What a guest does: calls of host functions and the unreachable
\* instruction.  The store may fail a store.get.
GuestCalls ==
    {[call |-> "store.set", id |-> id, data |-> [id |-> id, value |-> v]] : id \in DataIds, v \in Values}
    \cup {[call |-> "store.remove", id |-> id] : id \in DataIds}
    \cup {[call |-> "store.get", id |-> id, fails |-> fails] : id \in DataIds, fails \in BOOLEAN}
    \cup {[call |-> "env.abort"], [call |-> "unreachable"]}

\* The handlers the module exports, each by what it does when invoked: none,
\* one or two guest calls in any combination.  And a handler name the module
\* does not export.
Exports == UNION {[1..n -> GuestCalls] : n \in {0, 1, 2}}
NotExported == << [call |-> "handleNonExistentExampleEvent"] >>

\* A variant of store.set that writes the entity to the store at once.
store_set_through(run, id, data) ==
    [run EXCEPT !.entity_operations = Append(@, SetOp(DataT(ModuleSubgraph), id, data)),
                !.store = apply_set_operation(@, << DataT(ModuleSubgraph), id >>, data)]

\* HostExternals::store_set: a Set of the module's subgraph is pushed onto
\* entity_operations.
store_set(run, id, data) ==
    [run EXCEPT !.entity_operations = Append(@, SetOp(DataT(ModuleSubgraph), id, data))]

\* HostExternals::store_remove.
store_remove(run, id) ==
    [run EXCEPT !.entity_operations = Append(@, RemoveOp(DataT(ModuleSubgraph), id))]

\* A variant of store.get that looks into the operations of the block first:
\* those collected from earlier events, then those of this event.
store_get_layered(run, id, fails) ==
    LET key == << DataT(ModuleSubgraph), id >>
        written == SelectSeq(handled.pending \o run.entity_operations, LAMBDA op : op.key = key)
        latest == written[Len(written)]
    IN IF fails THEN [run EXCEPT !.status = "error"]
       ELSE IF written = <<>>
       THEN [run EXCEPT !.got = Append(@, [key |-> key, entity |-> get_entity(run.store, key[1], key[2])])]
       ELSE [run EXCEPT !.got = Append(@, [key |-> key,
                                           entity |-> IF latest.kind = "Set" THEN << latest.data >> ELSE <<>>])]

\* HostExternals::store_get: Store::get with the key of the module's
\* subgraph; a store error becomes a host error, which traps the guest.
store_get(run, id, fails) ==
    LET key == << DataT(ModuleSubgraph), id >>
    IN IF fails THEN [run EXCEPT !.status = "error"]
       ELSE [run EXCEPT !.got = Append(@, [key |-> key, entity |-> get_entity(run.store, key[1], key[2])])]

\* Externals::invoke_index: the host function of the index is called; there
\* is no arm for ABORT_FUNC_INDEX, which falls to the panic of the last arm.
invoke_index(run, guest_call) ==
    CASE guest_call.call = "store.set" -> store_set(run, guest_call.id, guest_call.data)
      [] guest_call.call = "store.get" -> store_get(run, guest_call.id, guest_call.fails)
      [] guest_call.call = "store.remove" -> store_remove(run, guest_call.id)
      [] OTHER -> [run EXCEPT !.status = "panic"]

RECURSIVE Invoke(_, _, _)
\* The guest runs from its i-th step on: a host call that fails and the
\* unreachable instruction trap, a panic of the host unwinds.
Invoke(run, handler, i) ==
    IF i > Len(handler) THEN run
    ELSE LET next == IF handler[i].call = "unreachable" THEN [run EXCEPT !.status = "error"]
                     ELSE invoke_index(run, handler[i])
         IN IF next.status # "ok" THEN next ELSE Invoke(next, handler, i + 1)

\* module.invoke_export: an error when the module has no export of the name.
invoke_export(run, handler_name) ==
    IF handler_name \notin Exports THEN [run EXCEPT !.status = "error"]
    ELSE Invoke(run, handler_name, 1)

\* A variant of the start of an event that keeps the operations of the event
\* before.
begin_event_keeping_operations(ext, event) ==
    [ext EXCEPT !.block_hash = event.block_hash]

\* A variant of the start of an event that clears the operations only when
\* the event before returned.
begin_event_clearing_after_success(ext, event) ==
    [block_hash |-> event.block_hash,
     entity_operations |-> IF handled.status = "ok" THEN <<>> ELSE ext.entity_operations]

\* handle_ethereum_event, its start: block_hash is set to the event's block
\* and entity_operations is cleared.
begin_event(ext, event) ==
    [block_hash |-> event.block_hash, entity_operations |-> <<>>]

\* A variant of the result that returns the collected operations also when
\* the handler failed.
event_result_with_operations(run) ==
    [status |-> run.status, operations |-> run.entity_operations]

\* handle_ethereum_event, its result: the collected entity operations or an
\* error.
event_result(run) ==
    IF run.status = "ok" THEN [status |-> "ok", operations |-> run.entity_operations]
    ELSE [status |-> run.status, operations |-> <<>>]

\* The block processor's view of the block of the event: the operations of
\* the earlier events of the block, if the event is not the first of it.
PendingOf(block) == IF handled.block = << block >> THEN handled.pending ELSE <<>>

\* WasmiModule::handle_ethereum_event, called by the block processor with
\* an event of the block after the deployment's block pointer.  The
\* processor adds the operations of the result to those of the block.  A
\* panic ends the thread of the module: no call follows it.
handle_ethereum_event(handler_name, event) ==
    /\ handled.status # "panic"
    /\ block_ptr(entities, ModuleSubgraph) # <<>>
    /\ event.block.number = block_ptr(entities, ModuleSubgraph)[1].number + 1
    /\ \E begun \in {begin_event(externals, event)} :
       \E run \in {invoke_export([status |-> "ok", store |-> entities, got |-> <<>>,
                                   entity_operations |-> begun.entity_operations],
                                  handler_name)} :
       \E out \in {event_result(run)} :
          /\ externals' = [begun EXCEPT !.entity_operations = run.entity_operations]
          /\ entities' = run.store
          /\ handled' = [status |-> out.status, operations |-> out.operations,
                         handler |-> handler_name, got |-> run.got, block |-> << event.block >>,
                         pending |-> PendingOf(event.block) \o out.operations,
                         events |-> handled.events + 1,
                         left |-> externals.entity_operations, after |-> handled.status]
    /\ calls' = calls + 1
    /\ UNCHANGED <<bus, pc, req, loc, ops, result, attempts, subscriptions, node, blockVars, fanned, checked, serverVars>>

\* The block processor commits the block whose events were handled: the
\* operations collected from them go to transact_block_operations.
commit_block ==
    /\ handled.status = "ok"
    /\ block_ptr(entities, ModuleSubgraph) # <<>>
    /\ handled.block[1].number = block_ptr(entities, ModuleSubgraph)[1].number + 1
    /\ calls' = calls + 1
    /\ UNCHANGED callerVars
    /\ transact_block_operations(ModuleSubgraph, block_ptr(entities, ModuleSubgraph)[1],
                                 handled.block[1], handled.pending, 0)

\* The events of a block: the block follows the block pointer on the first
\* chain.
Events ==
    {[block_hash |-> block.hash, block |-> block] :
        block \in {p \in Pointers : p.hash = "a" /\ p.number <= MaxBlock}}

NextHost ==
    \/ /\ calls < Len(SetupScript) + MaxHostCalls
       /\ \/ \E handler_name \in Exports \cup {NotExported}, event \in Events :
                handle_ethereum_event(handler_name, event)
          \/ commit_block
    \/ FanOut

\* A module of deployment Qm1 over the registry the setup script built.
SpecHost == InitBlock /\ [][NextHost]_vars

\* The start functions of a module: none, one host call or the unreachable
\* instruction.
StartFunctions == {start \in Exports : Len(start) <= 1}

\* WasmiModule::new: the externals are created with an empty
\* entity_operations and the start function of the module runs with them; a
\* start function that fails panics the thread of the module.
WasmiModule_new(start) ==
    /\ handled = NotHandled
    /\ externals = NewExternals
    /\ \E run \in {Invoke([status |-> "ok", store |-> entities, got |-> <<>>,
                            entity_operations |-> NewExternals.entity_operations], start, 1)} :
          IF run.status = "ok"
          THEN /\ externals' = [NewExternals EXCEPT !.entity_operations = run.entity_operations]
               /\ handled' = handled
          ELSE /\ externals' = externals
               /\ handled' = [handled EXCEPT !.status = "panic"]
    /\ UNCHANGED <<entities, calls, bus, pc, req, loc, ops, result, attempts, subscriptions, node, blockVars, fanned, checked, serverVars>>

NextStarted ==
    \/ \E start \in StartFunctions : WasmiModule_new(start)
    \/ NextHost

\* A module of deployment Qm1 from its construction on.
SpecStarted == InitBlock /\ [][NextStarted]_vars

\* --------------------------------------------- AbortUnless on its own

\* The longest list of expected entity ids.
MaxExpected == 3

\* The ids of the entities the queries are about, and the value each has:
\* the order of the values is not the order of the ids.
ThingIds == {1, 2, 3}
Thing(id) == [id |-> id, value |-> IF id = 1 THEN 2 ELSE IF id = 2 THEN 3 ELSE 1]

\* A table with the entities of the given ids.
Things(ids) == [key \in {<< DataT(101), id >> : id \in ids} |-> Thing(key[2])]

\* The queries of the AbortUnless operations: every entity of the type or
\* those of some ids, without order_by or ordered by value.
ThingFilters == {In("id", ids) : ids \in {ThingIds, {1, 2}, {3}}}
ThingQueries ==
    {Query(DataT(101), filter) : filter \in ThingFilters}
    \cup {OrderedQuery(DataT(101), filter, "value", order_direction) :
             filter \in ThingFilters, order_direction \in {"Ascending", "Descending"}}

\* The lists of expected ids: any ids in any order, duplicates included.
ExpectedIds == UNION {[1..n -> ThingIds] : n \in 0..MaxExpected}

\* A transaction of one write, or none, and an AbortUnless operation after
\* it, applied with apply_entity_operations to the table as it was made.
check_abort_unless(first, query, expected_entity_ids) ==
    /\ checked = NoCheck
    /\ calls' = calls + 1
    /\ \E operations \in {first \o << AbortUnless("as expected", query, expected_entity_ids) >>} :
       \E tx \in {apply_entity_operations(entities, operations, 0)} :
          /\ entities' = tx.ents
          /\ bus' = bus \o tx.changes
          /\ checked' = [status |-> tx.status, before |-> << entities >>,
                         operations |-> operations, error |-> tx.error]
    /\ UNCHANGED <<pc, req, loc, ops, result, attempts, subscriptions, node, blockVars, fanned, externals, handled, serverVars>>

NextAbortUnless ==
    \/ \E first \in {<<>>} \cup {<< w >> : w \in {SetOp(DataT(101), 3, Thing(3)), RemoveOp(DataT(101), 1)}} :
          \E query \in ThingQueries, expected_entity_ids \in ExpectedIds :
             check_abort_unless(first, query, expected_entity_ids)
    \/ FanOut

\* A table of some of the entities, nothing else.
InitAbortUnless ==
    /\ entities \in {Things(ids) : ids \in {{}, {1, 2}, ThingIds}}
    /\ calls = 0
    /\ InitCallers
    /\ NoBlocks

\* Transactions that end in an AbortUnless operation.
SpecAbortUnless == InitAbortUnless /\ [][NextAbortUnless]_vars

\* What the servers leave alone.
restVars_but_subscribing == <<subscriptions, registrarVars, node, blockVars, fanned, externals, handled, checked>>
restVars == <<restVars_but_subscribing, subscribing>>

\* ------------------------------------------------ GraphQL subscriptions

\* The most fields a selection set collects, and the most events the store
\* puts on a source stream.
MaxFields == 2
MaxSourceEvents == 2

\* What execute_subscription meets in a subscription: the kind of its only
\* operation ("none": get_operation fails), whether the variable values
\* coerce, whether the schema has a root subscription type, the number of
\* fields collect_fields groups, whether the argument values coerce and
\* whether the resolver returns a stream.
SubscriptionRequests ==
    [operation : {"Subscription", "Query", "Mutation", "none"}, variables_coerce : BOOLEAN,
     root_subscription_type : BOOLEAN, collected : 0..MaxFields,
     arguments_coerce : BOOLEAN, resolver_stream : BOOLEAN]

\* A variant that asks the resolver for the stream before it counts the
\* fields.
create_source_event_stream_resolving_first(request) ==
    IF ~request.root_subscription_type THEN [status |-> "NoRootSubscriptionObjectType", resolved |-> 0]
    ELSE IF request.collected = 0 THEN [status |-> "EmptyQuery", resolved |-> 1]
    ELSE IF request.collected > 1 THEN [status |-> "MultipleSubscriptionFields", resolved |-> 1]
    ELSE IF ~request.arguments_coerce THEN [status |-> "ArgumentsError", resolved |-> 1]
    ELSE IF ~request.resolver_stream THEN [status |-> "ResolverError", resolved |-> 1]
    ELSE [status |-> "Ok", resolved |-> 1]

\* create_source_event_stream: resolved counts the calls of the resolver's
\* resolve_field_stream.
create_source_event_stream(request) ==
    IF ~request.root_subscription_type THEN [status |-> "NoRootSubscriptionObjectType", resolved |-> 0]
    ELSE IF request.collected = 0 THEN [status |-> "EmptyQuery", resolved |-> 0]
    ELSE IF request.collected > 1 THEN [status |-> "MultipleSubscriptionFields", resolved |-> 0]
    ELSE IF ~request.arguments_coerce THEN [status |-> "ArgumentsError", resolved |-> 0]
    ELSE IF ~request.resolver_stream THEN [status |-> "ResolverError", resolved |-> 1]
    ELSE [status |-> "Ok", resolved |-> 1]

\* execute_subscription up to the response stream it returns.
execute_subscription(request) ==
    IF request.operation = "none" THEN [status |-> "OperationError", resolved |-> 0]
    ELSE IF ~request.variables_coerce THEN [status |-> "VariablesError", resolved |-> 0]
    ELSE IF request.operation = "Subscription" THEN create_source_event_stream(request)
    ELSE [status |-> "NotSupported", resolved |-> 0]

\* execute_subscription_event: the selection set executed for an event, its
\* value or its error made a QueryResult.  of: the event it answers.
execute_subscription_event(event, fails) ==
    IF fails THEN [of |-> event, data |-> <<>>, errors |-> << "QueryExecutionError" >>]
    ELSE [of |-> event, data |-> << "value" >>, errors |-> <<>>]

\* A variant whose response stream ends with the first error result.
map_source_to_response_stream_ending_on_error(g, fails) ==
    IF g.source # <<>>
    THEN [g EXCEPT !.source = Tail(@),
                   !.results = Append(@, execute_subscription_event(Head(g.source), fails)),
                   !.ended = fails]
    ELSE [g EXCEPT !.ended = g.source_ended]

\* The response stream of map_source_to_response_stream polled once:
\* source_stream.map yields the result of the next source event, ends when
\* the source has ended, and is not ready otherwise.
map_source_to_response_stream(g, fails) ==
    IF g.source # <<>>
    THEN [g EXCEPT !.source = Tail(@),
                   !.results = Append(@, execute_subscription_event(Head(g.source), fails))]
    ELSE [g EXCEPT !.ended = g.source_ended]

\* A client subscribes.
subscribe_call(request) ==
    /\ graphql.status = "none"
    /\ \E out \in {execute_subscription(request)} :
          graphql' = [graphql EXCEPT !.status = out.status, !.resolved = out.resolved,
                                     !.request = << request >>]
    /\ UNCHANGED <<restVars, websocket, returned>>

\* The store puts an entity change on the source stream.
source_event ==
    /\ graphql.status = "Ok"
    /\ ~graphql.source_ended
    /\ graphql.sent < MaxSourceEvents
    /\ graphql' = [graphql EXCEPT !.sent = @ + 1, !.source = Append(@, graphql.sent + 1)]
    /\ UNCHANGED <<restVars, websocket, returned>>

\* The store drops the sender: the source stream ends after what it holds.
source_end ==
    /\ graphql.status = "Ok"
    /\ ~graphql.source_ended
    /\ graphql' = [graphql EXCEPT !.source_ended = TRUE]
    /\ UNCHANGED <<restVars, websocket, returned>>

\* The client polls the response stream.
poll_response(fails) ==
    /\ graphql.status = "Ok"
    /\ ~graphql.ended
    /\ graphql' = map_source_to_response_stream(graphql, fails)
    /\ UNCHANGED <<restVars, websocket, returned>>

NextSubscription ==
    \/ \E request \in SubscriptionRequests : subscribe_call(request)
    \/ source_event
    \/ source_end
    \/ \E fails \in BOOLEAN : poll_response(fails)

InitSubscription ==
    /\ entities = <<>>
    /\ calls = 0
    /\ InitCallers
    /\ NoBlocks

\* One GraphQL subscription from its execution to the end of its stream.
SpecSubscription == InitSubscription /\ [][NextSubscription]_vars

\* ------------------------------------------------ the subscription server

\* The most handshakes in one behaviour.
MaxHandshakes == 2

\* SUBGRAPHS_ID, the deployment id of the subgraph of subgraphs.
SUBGRAPHS_ID == 100

\* The request paths: rooted says whether the path begins with '/', segments
\* is what stands between its '/' characters.
Paths ==
    [rooted : BOOLEAN,
     segments : {<<>>, << "subgraphs" >>, << "subgraphs", "" >>, << "other" >>,
                 << "subgraphs", "id", "Qm1" >>, << "subgraphs", "id", "Qm2" >>,
                 << "subgraphs", "id", "?" >>, << "subgraphs", "id" >>,
                 << "subgraphs", "name", "x" >>, << "subgraphs", "name", "y" >>,
                 << "subgraphs", "name", "x", "y" >>, << "subgraphs", "name", "x", "y", "z" >>}]

\* Path::iter after the root: empty and "." components are left out.
path_segments(path) == SelectSeq(path.segments, LAMBDA segment : segment \notin {"", "."})

\* SubgraphDeploymentId::new: Qm1 and Qm2 are the ids of the model, "?" is
\* not an id.
SubgraphDeploymentId_new(segment) ==
    IF segment \in {"Qm1", "Qm2"} THEN Some(("Qm1" :> 101 @@ "Qm2" :> 102)[segment]) ELSE Err

\* path_segments[2..].join("/"): the one name, or the two with '/' between.
join(names) == IF Len(names) = 1 THEN names[1] ELSE (<< "x", "y" >> :> "x/y")[names]

\* SubgraphDeploymentStore::is_deployed; fails: the store cannot be read.
is_deployed(ents, id, fails) ==
    IF id = SUBGRAPHS_ID THEN Some(TRUE)
    ELSE IF fails THEN Err
    ELSE Some(<< DeploymentT, id >> \in DOMAIN ents)

Panicked == [status |-> "panic", value |-> <<>>]

\* subgraph_id_from_url_path: a deployment id, Err, or the panic of the
\* assertion on the leading '/' or of expect on an error of the store.
subgraph_id_from_url_path(ents, path, fails) ==
    IF ~path.rooted THEN Panicked
    ELSE CHOOSE r \in
            {IF segments = << "subgraphs" >> THEN Some(SUBGRAPHS_ID)
             ELSE IF Len(segments) = 3 /\ SubSeq(segments, 1, 2) = << "subgraphs", "id" >>
             THEN SubgraphDeploymentId_new(segments[3])
             ELSE IF Len(segments) \in {3, 4} /\ SubSeq(segments, 1, 2) = << "subgraphs", "name" >>
             THEN CHOOSE id \in
                     {IF assignment_opt.status = "Err" THEN Panicked
                      ELSE IF assignment_opt.value = <<>> THEN Err
                      ELSE assignment_opt :
                         assignment_opt \in
                            {IF fails THEN Err
                             ELSE resolve_subgraph_name_to_id(ents, join(SubSeq(segments, 3, Len(segments))))}} : TRUE
             ELSE Err : segments \in {path_segments(path)}} : TRUE

\* The callback of accept_hdr_async: the answer to the handshake.
accept_hdr(ents, path, resolve_fails, deployed_fails) ==
    CHOOSE answer \in
       {IF subgraph_id.status = "panic" THEN "panic"
        ELSE IF subgraph_id.status = "Err" THEN "404"
        ELSE IF is_deployed(ents, subgraph_id.value[1], deployed_fails) = Some(TRUE) THEN "graphql-ws"
        ELSE "404" : subgraph_id \in {subgraph_id_from_url_path(ents, path, resolve_fails)}} : TRUE

\* SubscriptionServer::serve for one incoming connection: a panic of the
\* callback unwinds the task that accepts the connections.
serve(path, resolve_fails, deployed_fails) ==
    /\ websocket.accepting
    /\ Len(websocket.handshakes) < MaxHandshakes
    /\ \E answer \in {accept_hdr(entities, path, resolve_fails, deployed_fails)} :
          websocket' = [accepting |-> answer # "panic",
                        handshakes |-> Append(websocket.handshakes,
                                              [path |-> path, resolve_fails |-> resolve_fails,
                                               deployed_fails |-> deployed_fails, answer |-> answer])]
    /\ UNCHANGED <<restVars, graphql, returned>>

NextWebsocket ==
    \E path \in Paths, resolve_fails, deployed_fails \in BOOLEAN : serve(path, resolve_fails, deployed_fails)

\* The subscription server over a registry the setup script built.
SpecWebsocket == Init /\ [][NextWebsocket]_vars

\* ------------------------------------------------------------ find_one

\* The largest first and the largest skip of a range.
MaxFirst == 2
MaxSkip == 2

\* The query with the range put in place of the one it has, if any.
WithRange(query, range) ==
    [field \in DOMAIN query \cup {"range"} |-> IF field = "range" THEN range ELSE query[field]]

\* The queries find_one is given: those of the AbortUnless operations,
\* without range or with one.
RangedQueries ==
    ThingQueries
    \cup {WithRange(query, range) : query \in ThingQueries, range \in [first : 0..MaxFirst, skip : 0..MaxSkip]}

\* Store::find.
find(ents, query) == execute_query(ents, query)

\* A variant that starts at the first row whatever the skip of the query.
store_find_one_from_the_start(ents, query) ==
    IF "range" \in DOMAIN query /\ query.range.first = 0 THEN None
    ELSE CHOOSE out \in
            {IF Len(results) = 0 THEN None ELSE Some(results[Len(results)]) :
                results \in {execute_query(ents, WithRange(query, [first |-> 1, skip |-> 0]))}} : TRUE

\* Store::find_one with the rows taken in the order execute_query gives
\* them: nothing for a range with first = 0; else the query is run with
\* first = 1 and its skip, or skip = 0 when it has no range, and the one
\* entity found, if any, is returned.  More than one result is a panic.
store_find_one(ents, query) ==
    IF "range" \in DOMAIN query /\ query.range.first = 0 THEN None
    ELSE CHOOSE out \in
            {IF Len(results) \in {0, 1}
             THEN IF Len(results) = 0 THEN None ELSE Some(results[Len(results)])
             ELSE Panicked :
                results \in
                   {execute_query(ents,
                                  IF "range" \in DOMAIN query
                                  THEN WithRange(query, [query.range EXCEPT !.first = 1])
                                  ELSE WithRange(query, [first |-> 1, skip |-> 0]))}} : TRUE

\* find_one is called with a query.
find_one_call(query) ==
    /\ returned = NoAnswer
    /\ returned' = [call |-> "find_one", input |-> << query >>, output |-> << store_find_one(entities, query) >>]
    /\ UNCHANGED <<restVars, graphql, websocket>>

NextFindOne == \E query \in RangedQueries : find_one_call(query)

\* find_one on a table of some of the entities.
SpecFindOne == InitAbortUnless /\ [][NextFindOne]_vars

\* ---------------------------------------------------- GraphQL over HTTP

\* JSON values, each with its kind.
JsonNull == [kind |-> "null"]
JsonNumber(number) == [kind |-> "number", number |-> number]
JsonString(text) == [kind |-> "string", text |-> text]
JsonList(items) == [kind |-> "list", items |-> items]
JsonObject(fields) == [kind |-> "object", fields |-> fields]

\* A function on some of the names of a function.
Restrict(fields, names) == [name \in names |-> fields[name]]

\* The values of the "query" field: two documents, text that is no document,
\* and values that are no strings.  The values of the "variables" field: the
\* objects with some of three entries, and values that are no objects.
QueryValues ==
    {JsonString("{ user { name } }"), JsonString("{ users { id } }"), JsonString("foo"),
     JsonNumber(5), JsonNull}
VariableEntries ==
    [string |-> JsonString("s"), int |-> JsonNumber(5),
     map |-> JsonObject([k |-> JsonString("v")])]
VariablesValues ==
    {JsonObject(Restrict(VariableEntries, names)) : names \in SUBSET DOMAIN VariableEntries}
    \cup {JsonNull, JsonNumber(5), JsonString("s"), JsonList(<< JsonNumber(5) >>)}

\* The bodies of the requests: bytes that are no JSON, JSON values that are
\* no objects, and objects with or without the fields "query", "variables"
\* and "operationName".
Bodies ==
    {[kind |-> "invalid"], JsonNull, JsonNumber(5), JsonString("{ user { name } }"),
     JsonList(<<>>)}
    \cup {JsonObject(Restrict([query |-> query, variables |-> variables,
                               operationName |-> JsonString("q")], names)) :
             query \in QueryValues, variables \in VariablesValues,
             names \in SUBSET {"query", "variables", "operationName"}}

\* graphql_parser::parse_query: the document of a text that is one.
parse_query(query_string) ==
    IF query_string \in {"{ user { name } }", "{ users { id } }"}
    THEN Some([definitions |-> << [selection_set |-> query_string] >>])
    ELSE Err

RECURSIVE from_value(_)
\* serde_json::from_value into a q::Value: a string becomes String, a number
\* Int, an object Object of its entries.
from_value(json) ==
    CASE json.kind = "string" -> [q |-> "String", string |-> json.text]
      [] json.kind = "number" -> [q |-> "Int", int |-> json.number]
      [] json.kind = "null" -> [q |-> "Null"]
      [] json.kind = "list" -> [q |-> "List", list |-> [i \in DOMAIN json.items |-> from_value(json.items[i])]]
      [] json.kind = "object" ->
            [q |-> "Object", object |-> [name \in DOMAIN json.fields |-> from_value(json.fields[name])]]

\* A variant that takes every "variables" value that is no object for none.
poll_ignoring_variables(body) ==
    IF body.kind = "invalid" THEN [status |-> "ClientError", query |-> <<>>]
    ELSE IF body.kind # "object" THEN [status |-> "ClientError", query |-> <<>>]
    ELSE IF "query" \notin DOMAIN body.fields THEN [status |-> "ClientError", query |-> <<>>]
    ELSE IF body.fields.query.kind # "string" THEN [status |-> "ClientError", query |-> <<>>]
    ELSE IF parse_query(body.fields.query.text) = Err THEN [status |-> "QueryError", query |-> <<>>]
    ELSE IF "variables" \notin DOMAIN body.fields \/ body.fields.variables.kind # "object"
    THEN [status |-> "Ready",
          query |-> << [document |-> parse_query(body.fields.query.text).value[1], variables |-> None] >>]
    ELSE [status |-> "Ready",
          query |-> << [document |-> parse_query(body.fields.query.text).value[1],
                        variables |-> Some(from_value(body.fields.variables).object)] >>]

\* GraphQLRequest::poll: the Query of the body, or the error.
poll(body) ==
    IF body.kind = "invalid" THEN [status |-> "ClientError", query |-> <<>>]
    ELSE IF body.kind # "object" THEN [status |-> "ClientError", query |-> <<>>]
    ELSE IF "query" \notin DOMAIN body.fields THEN [status |-> "ClientError", query |-> <<>>]
    ELSE IF body.fields.query.kind # "string" THEN [status |-> "ClientError", query |-> <<>>]
    ELSE IF parse_query(body.fields.query.text) = Err THEN [status |-> "QueryError", query |-> <<>>]
    ELSE IF "variables" \notin DOMAIN body.fields \/ body.fields.variables.kind = "null"
    THEN [status |-> "Ready",
          query |-> << [document |-> parse_query(body.fields.query.text).value[1], variables |-> None] >>]
    ELSE IF body.fields.variables.kind = "object"
    THEN [status |-> "Ready",
          query |-> << [document |-> parse_query(body.fields.query.text).value[1],
                        variables |-> Some(from_value(body.fields.variables).object)] >>]
    ELSE [status |-> "ClientError", query |-> <<>>]

\* The HTTP server polls the request made of a body.
request_call(body) ==
    /\ returned = NoAnswer
    /\ returned' = [call |-> "poll", input |-> << body >>, output |-> << poll(body) >>]
    /\ UNCHANGED <<restVars, graphql, websocket>>

NextRequest == \E body \in Bodies : request_call(body)

\* One GraphQL request over HTTP.
SpecRequest == InitSubscription /\ [][NextRequest]_vars

\* ------------------------------------------------ the subscriptions map

\* The most subscribe calls in one behaviour, the most ids Uuid::new_v4
\* draws from, and the most registrar calls that commit meanwhile.
MaxSubscribes == 2
MaxUuid == 2
MaxFanOutCalls == 1

\* The ids Uuid::new_v4 can give, and the threads that call subscribe.
Uuids == 1..MaxUuid
SubscribeThreads == {1, 2}

\* The sets of entity types the callers of subscribe ask for.
SubscribedEntities == {{SubgraphT, VersionT, DeploymentT, AssignmentT}, {SubgraphT, AssignmentT}}

\* channel(100): the queue of the channel, whether its Receiver is alive, and
\* what was sent into it since its subscription was inserted.
NewChannel == [queue |-> <<>>, alive |-> TRUE, from |-> 0, sent |-> <<>>]

\* Store::subscribe, first statement: a candidate id is drawn.
subscribe_new_v4(t, entity_types, id) ==
    /\ subscribing.callers[t].pc = "idle"
    /\ Len(subscribing.channels) + Cardinality({c \in SubscribeThreads : subscribing.callers[c].pc = "check"}) < MaxSubscribes
    /\ subscribing' = [subscribing EXCEPT !.callers[t] = [pc |-> "check", id |-> id, entities |-> entity_types, channel |-> 0]]
    /\ UNCHANGED <<restVars_but_subscribing, graphql, websocket, returned>>

\* One test of the while loop, under the read lock, which is released when
\* the test is made: another id is drawn when the map has the candidate,
\* else the channel is created.
subscribe_contains_key(t, id) ==
    /\ subscribing.callers[t].pc = "check"
    /\ subscribing' =
          IF subscribing.callers[t].id \in DOMAIN subscribing.subscriptions
          THEN [subscribing EXCEPT !.callers[t].id = id]
          ELSE [subscribing EXCEPT !.callers[t].pc = "insert",
                                   !.callers[t].channel = Len(subscribing.channels) + 1,
                                   !.channels = Append(@, NewChannel)]
    /\ UNCHANGED <<restVars_but_subscribing, graphql, websocket, returned>>

\* The insertion under the write lock: HashMap::insert puts the subscription
\* under the id, in place of the value the id had, if any.
subscribe_insert(t) ==
    /\ subscribing.callers[t].pc = "insert"
    /\ subscribing' =
          [subscribing EXCEPT
              !.subscriptions =
                  (subscribing.callers[t].id :>
                      [entities |-> subscribing.callers[t].entities, sender |-> subscribing.callers[t].channel])
                  @@ @,
              !.channels[subscribing.callers[t].channel].from = Len(fanned),
              !.callers[t].pc = "idle"]
    /\ UNCHANGED <<restVars_but_subscribing, graphql, websocket, returned>>

NextSubscribe ==
    \E t \in SubscribeThreads :
        \/ \E entity_types \in SubscribedEntities, id \in Uuids : subscribe_new_v4(t, entity_types, id)
        \/ \E id \in Uuids : subscribe_contains_key(t, id)
        \/ subscribe_insert(t)

\* Threads that call subscribe on one store.
SpecSubscribe == Init /\ [][NextSubscribe]_vars

\* ------------------------------------------------ the fan-out task

\* What the task does when it has sent the change to a match: the next match,
\* or the next change when no match is left.
Sent(task, match, parked) ==
    IF task.matches = {match} /\ parked = 0 THEN Idle
    ELSE [task EXCEPT !.matches = @ \ {match}, !.parked = parked]

\* subscriptions.remove(&id).
remove(subscriptions_map, ids) ==
    [id \in DOMAIN subscriptions_map \ ids |-> subscriptions_map[id]]

\* handle_entity_changes, the start of the closure of for_each: the next
\* change is taken off the stream, and the ids and sender clones of the
\* matching subscriptions are collected under the read lock.
handle_entity_changes(change) ==
    /\ subscribing.task = Idle
    /\ bus # <<>>
    /\ change = Head(bus)
    /\ bus' = Tail(bus)
    /\ fanned' = Append(fanned, change)
    /\ LET matches == {[id |-> id, sender |-> subscribing.subscriptions[id].sender] :
                          id \in {i \in DOMAIN subscribing.subscriptions :
                                     change.entity_type \in subscribing.subscriptions[i].entities}}
       IN subscribing' =
             [subscribing EXCEPT
                 !.task = IF matches = {} THEN Idle
                          ELSE [change |-> << change >>, matches |-> matches, parked |-> 0]]
    /\ UNCHANGED <<entities, pc, req, loc, ops, result, attempts, calls, subscriptions, node, blockVars>>
    /\ UNCHANGED <<externals, handled, checked, graphql, websocket, returned>>

\* A variant of the send that is complete when the change is in the queue,
\* however many the queue holds.
sender_send_without_waiting(match) ==
    /\ subscribing.task.change # <<>>
    /\ subscribing.task.parked = 0
    /\ match \in subscribing.task.matches
    /\ subscribing' =
          IF subscribing.channels[match.sender].alive
          THEN [subscribing EXCEPT
                   !.channels[match.sender].queue = Append(@, subscribing.task.change[1]),
                   !.channels[match.sender].sent = Append(@, subscribing.task.change[1]),
                   !.task = Sent(subscribing.task, match, 0)]
          ELSE [subscribing EXCEPT
                   !.subscriptions = remove(@, {match.id}),
                   !.task = Sent(subscribing.task, match, 0)]
    /\ UNCHANGED <<restVars_but_subscribing, graphql, websocket, returned>>

\* sender.send(change.clone()).then(..) for the next match: the clone of the
\* sender puts the change into the queue; the send is complete unless the
\* queue then holds more than the buffer, which parks the sender.  When the
\* Receiver was dropped the send fails and the entry of the id is removed.
sender_send(match) ==
    /\ subscribing.task.change # <<>>
    /\ subscribing.task.parked = 0
    /\ match \in subscribing.task.matches
    /\ subscribing' =
          IF subscribing.channels[match.sender].alive
          THEN [subscribing EXCEPT
                   !.channels[match.sender].queue = Append(@, subscribing.task.change[1]),
                   !.channels[match.sender].sent = Append(@, subscribing.task.change[1]),
                   !.task = Sent(subscribing.task, match,
                                 IF Len(subscribing.channels[match.sender].queue) + 1 > ChannelBuffer
                                 THEN match.sender ELSE 0)]
          ELSE [subscribing EXCEPT
                   !.subscriptions = remove(@, {match.id}),
                   !.task = Sent(subscribing.task, match, 0)]
    /\ UNCHANGED <<restVars_but_subscribing, graphql, websocket, returned>>

\* The parked send is complete: the Receiver took a message off the queue,
\* or it was dropped.
sender_send_completed ==
    /\ subscribing.task.parked # 0
    /\ \/ Len(subscribing.channels[subscribing.task.parked].queue) <= ChannelBuffer
       \/ ~subscribing.channels[subscribing.task.parked].alive
    /\ subscribing' =
          [subscribing EXCEPT !.task = IF @.matches = {} THEN Idle ELSE [@ EXCEPT !.parked = 0]]
    /\ UNCHANGED <<restVars_but_subscribing, graphql, websocket, returned>>

\* The Receiver of a channel is polled and gives the next change.
receiver_poll(channel) ==
    /\ subscribing.channels[channel].alive
    /\ subscribing.channels[channel].queue # <<>>
    /\ subscribing' = [subscribing EXCEPT !.channels[channel].queue = Tail(@)]
    /\ UNCHANGED <<restVars_but_subscribing, graphql, websocket, returned>>

\* The Receiver of a channel is dropped.
receiver_drop(channel) ==
    /\ subscribing.channels[channel].alive
    /\ subscribing' = [subscribing EXCEPT !.channels[channel].alive = FALSE]
    /\ UNCHANGED <<restVars_but_subscribing, graphql, websocket, returned>>

\* The ids of the subscriptions whose stored sender answers poll_ready with
\* an error: the Receiver has gone.
stale_ids(subscriptions_map) ==
    {id \in DOMAIN subscriptions_map : ~subscribing.channels[subscriptions_map[id].sender].alive}

\* A variant that also takes for stale the subscriptions whose queue holds
\* the buffer or more.
stale_or_full_ids(subscriptions_map) ==
    {id \in DOMAIN subscriptions_map :
        \/ ~subscribing.channels[subscriptions_map[id].sender].alive
        \/ Len(subscribing.channels[subscriptions_map[id].sender].queue) >= ChannelBuffer}

\* periodically_clean_up_stale_subscriptions, one tick of the interval.
periodically_clean_up_stale_subscriptions ==
    /\ stale_ids(subscribing.subscriptions) # {}
    /\ subscribing' = [subscribing EXCEPT !.subscriptions = remove(@, stale_ids(@))]
    /\ UNCHANGED <<restVars_but_subscribing, graphql, websocket, returned>>

NextFanOut ==
    \/ NextSubscribe
    \/ calls < Len(SetupScript) + MaxFanOutCalls /\ SubCall
    \/ \E change \in {bus[i] : i \in 1..Len(bus)} : handle_entity_changes(change)
    \/ \E match \in subscribing.task.matches : sender_send(match)
    \/ sender_send_completed
    \/ \E channel \in 1..Len(subscribing.channels) : receiver_poll(channel)
    \/ \E channel \in 1..Len(subscribing.channels) : receiver_drop(channel)
    \/ periodically_clean_up_stale_subscriptions

\* Subscribers come and go while registrar calls commit and the fan-out task
\* and the sweeper run.
SpecFanOut == InitSub /\ [][NextFanOut]_vars

\* The map after two subscribe calls that drew different ids.
TwoSubscribers(first, second) ==
    [subscriptions |-> (1 :> [entities |-> first, sender |-> 1]) @@ (2 :> [entities |-> second, sender |-> 2]),
     callers |-> [t \in SubscribeThreads |->
                    [pc |-> "idle", id |-> t, entities |-> IF t = 1 THEN first ELSE second, channel |-> t]],
     channels |-> << NewChannel, NewChannel >>,
     task |-> Idle]

InitDelivery ==
    /\ entities = StoreAfter(<<>>, SubSeq(SetupScript, 1, 1), 1)
    /\ calls = Len(SetupScript)
    /\ InitIdle
    /\ NoBlocks
    /\ \E first \in SubscribedEntities, second \in SubscribedEntities :
          subscribing = TwoSubscribers(first, second)

NextDelivery ==
    \/ calls < Len(SetupScript) + MaxFanOutCalls /\ SubCall
    \/ \E change \in {bus[i] : i \in 1..Len(bus)} : handle_entity_changes(change)
    \/ \E match \in subscribing.task.matches : sender_send(match)
    \/ sender_send_completed
    \/ \E channel \in 1..Len(subscribing.channels) : receiver_poll(channel)
    \/ \E channel \in 1..Len(subscribing.channels) : receiver_drop(channel)
    \/ periodically_clean_up_stale_subscriptions

\* Two subscribers listen while registrar calls commit and the fan-out task
\* and the sweeper run.
SpecDelivery == InitDelivery /\ [][NextDelivery]_vars

\* ------------------------------------------------- views of the registry

\* The entities of one type.
EntitiesOf(ents, type) == {ents[k] : k \in {k \in DOMAIN ents : k[1] = type}}

\* The ids of the entities of one type.
IdsOf(ents, type) == {k[2] : k \in {k \in DOMAIN ents : k[1] = type}}

\* { v.deployment : v is a SubgraphVersion }.
ReferencedDeployments(ents) == {v.deployment : v \in EntitiesOf(ents, VersionT)}

\* { v.deployment : v is the currentVersion of some Subgraph }.
CurrentDeployments(ents) ==
    {ents[<<VersionT, s.currentVersion>>].deployment :
        s \in {s \in EntitiesOf(ents, SubgraphT) :
                  <<VersionT, s.currentVersion>> \in DOMAIN ents}}

Returned(p, statuses) == pc[p] = "done" /\ result[p].status \in statuses

\* q is inside create_subgraph_version, after its read of the Subgraph and
\* before its transaction.
PendingVersion(q) ==
    /\ req[q].op = "create_subgraph_version"
    /\ pc[q] \in {"cv_get_deployment", "cv_get_previous", "cv_find_referencing",
                  "cv_find_current", "cv_get_assignment", "commit"}

\* p and q run or ran create_subgraph_version for the same name and read the
\* same currentVersion.
SameRead(p, q) ==
    /\ req[p].op = "create_subgraph_version"
    /\ req[q].op = "create_subgraph_version"
    /\ req[p].name = req[q].name
    /\ loc[p].subgraph_entity_id # Null
    /\ loc[q].subgraph_entity_id # Null
    /\ loc[p].current_version_id_opt = loc[q].current_version_id_opt

\* ----------------------------------------------------------------- claims

\* C1: a failing apply_entity_operations (an AbortUnless mismatch or a store
\* error on a Set/Remove) leaves the table exactly as before the call and
\* puts no change record on the change stream.
C1_FailedCommitChangesNothing ==
    [][\A p \in Callers :
          (pc[p] = "commit" /\ pc'[p] = "done" /\ result'[p].status # "ok")
              => (entities' = entities /\ bus' = bus)]_vars

\* A transaction failed at its third operation or later: a Set had been
\* applied in it.
C1_Witness ==
    \E p \in Callers : Returned(p, {"AbortUnless", "StoreError"}) /\ result[p].at >= 3

\* C2 as claimed: under concurrent callers the Assignment entities are the
\* deployments of the current versions.
C2_AssignmentsAreCurrentDeployments ==
    IdsOf(entities, AssignmentT) = CurrentDeployments(entities)

\* C4: a Deployment entity exists if and only if a SubgraphVersion references
\* it, under concurrent callers.
C4_DeploymentsAreReferenced ==
    IdsOf(entities, DeploymentT) = ReferencedDeployments(entities)

\* A remove_subgraph committed, it removed a Deployment and another
\* Deployment survives with its versions.
C4_Witness ==
    \E p \in Callers :
        /\ Returned(p, {"ok"})
        /\ req[p].op = "remove_subgraph"
        /\ IdsOf(entities, DeploymentT) # {}
        /\ IdsOf(entities, DeploymentT) # Hashes

\* C5: no two Subgraph entities have the same name.
C5_NamesUnique ==
    \A s, t \in EntitiesOf(entities, SubgraphT) : s.name = t.name => s.id = t.id

\* Two create_subgraph calls for one name both found no Subgraph: one
\* committed, the other was aborted by its guard.
C5_Witness ==
    \E p, q \in Callers :
        /\ p # q
        /\ req[p].op = "create_subgraph" /\ req[q].op = "create_subgraph"
        /\ req[p].name = req[q].name
        /\ Returned(p, {"ok"})
        /\ Returned(q, {"AbortUnless"})

\* The first operation of q's list: the guard over (name, currentVersion).
SubgraphGuardHolds(q) ==
    apply_abort_unless_operation(entities, ops[q][1].query, ops[q][1].entity_ids)

\* C6: of two create_subgraph_version calls for one name that read the same
\* currentVersion, exactly one commits; once one has committed, the guard over
\* (name, currentVersion) of the other fails; the loser leaves no
\* SubgraphVersion of its own, and no Deployment or Assignment but those a
\* SubgraphVersion of another call references.
C6_ExactlyOneCommits ==
    \A p, q \in Callers :
        (p # q /\ SameRead(p, q)) =>
            /\ (Returned(p, {"ok"}) /\ PendingVersion(q)) => ~SubgraphGuardHolds(q)
            /\ (Returned(p, {"ok", "AbortUnless"}) /\ Returned(q, {"ok", "AbortUnless"}))
                  => /\ result[p].status # result[q].status
                     /\ \A l \in {p, q} :
                           result[l].status = "AbortUnless" =>
                              /\ <<VersionT, req[l].id>> \notin DOMAIN entities
                              /\ \A type \in {DeploymentT, AssignmentT} :
                                    <<type, req[l].hash>> \in DOMAIN entities
                                        => req[l].hash \in ReferencedDeployments(entities)

\* Both calls returned: one committed, the other was aborted.
C6_Witness ==
    \E p, q \in Callers :
        /\ p # q /\ SameRead(p, q)
        /\ Returned(p, {"ok"})
        /\ Returned(q, {"AbortUnless"})
        /\ result[q].at = 1

NameTaken(name) == \E s \in EntitiesOf(entities, SubgraphT) : s.name = name

\* The step returns the error without a transaction: nothing is written.
FailsWith(p, status) ==
    /\ pc'[p] = "done"
    /\ result'[p].status = status
    /\ attempts'[p] = 0
    /\ entities' = entities
    /\ bus' = bus

\* C9: create_subgraph on an existing name returns NameExists,
\* create_subgraph_version and remove_subgraph on an unknown name return
\* NameNotFound, in both cases without a commit and with the store unchanged;
\* otherwise the function goes on.
C9_PreconditionFailure ==
    [][\A p \in Callers :
          /\ (pc[p] = "cs_find_subgraph" /\ pc'[p] # pc[p]) =>
                IF NameTaken(req[p].name) THEN FailsWith(p, "NameExists")
                ELSE pc'[p] = "commit"
          /\ (pc[p] = "cv_find_subgraph" /\ pc'[p] # pc[p]) =>
                IF ~NameTaken(req[p].name) THEN FailsWith(p, "NameNotFound")
                ELSE pc'[p] = "cv_get_deployment"
          /\ (pc[p] = "rm_find_subgraph" /\ pc'[p] # pc[p]) =>
                IF ~NameTaken(req[p].name) THEN FailsWith(p, "NameNotFound")
                ELSE pc'[p] = "rm_find_versions"]_vars

\* One call has failed with NameExists and another with NameNotFound.
C9_Witness ==
    \E p, q \in Callers :
        /\ Returned(p, {"NameExists"}) /\ attempts[p] = 0
        /\ Returned(q, {"NameNotFound"}) /\ attempts[q] = 0

\* C3: when the calls run one after another, after each of them the
\* Assignment entities are the deployments of the current versions: a
\* create_subgraph_version that moves a subgraph off a deployment removes its
\* Assignment exactly when no other subgraph is current on it, and the
\* Assignment of the new deployment exists.
C3_SequentialAssignments ==
    IdsOf(entities, AssignmentT) = CurrentDeployments(entities)

\* A create_subgraph_version has moved a subgraph from one deployment to the
\* other while another subgraph stays current on the first.
C3_Witness ==
    /\ Returned(1, {"ok"})
    /\ req[1].op = "create_subgraph_version"
    /\ \E v \in EntitiesOf(entities, VersionT) :
          /\ v.subgraph = loc[1].subgraph_entity_id
          /\ v.id = loc[1].current_version_id_opt
          /\ v.deployment # req[1].hash
          /\ v.deployment \in CurrentDeployments(entities)
    /\ IdsOf(entities, AssignmentT) = Hashes

\* C8: after create_subgraph(name) and a successful
\* create_subgraph_version(name, hash, node), resolve_subgraph_name_to_id(name)
\* is Some(hash); after a further successful call with another hash it is
\* Some of that hash.
C8_ResolvesToLatest ==
    (Returned(1, {"ok"}) /\ req[1].op = "create_subgraph_version")
        => resolve_subgraph_name_to_id(entities, req[1].name) = Some(req[1].hash)

\* A second create_subgraph_version for the name, with another hash, has
\* returned Ok.
C8_Witness ==
    /\ Returned(1, {"ok"})
    /\ req[1].op = "create_subgraph_version"
    /\ \E v \in EntitiesOf(entities, VersionT) :
          /\ v.id = loc[1].current_version_id_opt
          /\ v.deployment # req[1].hash
    /\ resolve_subgraph_name_to_id(entities, req[1].name) = Some(req[1].hash)

\* The deployments assigned to this node.
Assigned(ents) == {a.id : a \in {a \in EntitiesOf(ents, AssignmentT) : a.nodeId = ThisNode}}

\* The consumer runs and every change committed so far has been handled.
Quiet ==
    /\ node.pc = "consuming"
    /\ bus = <<>>
    /\ subscriptions[1].queue = <<>>
    /\ node.event = <<>>

\* C10: whatever the interleaving of commits with the startup of the
\* registrar, once the consumer runs and all changes are handled, and no
\* start or stop of the provider has failed, the deployments running on the
\* node are the Assignment entities whose nodeId is this node.
C10_RunningIsAssigned ==
    (Quiet /\ ~node.provider_failed) => node.running = Assigned(entities)

\* The node started a deployment at startup, then handled at least two events
\* of commits made meanwhile, and now runs another deployment only.
C10_Witness ==
    /\ Quiet
    /\ ~node.provider_failed
    /\ node.handled >= 2
    /\ node.running = {102}
    /\ node.running = Assigned(entities)

\* ------------------------------------------------ the assignment events

\* The consumer takes the next change off its stream in this step.
Taken ==
    /\ subscriptions # <<>>
    /\ subscriptions[1].queue # <<>>
    /\ subscriptions' # <<>>
    /\ subscriptions'[1].queue = Tail(subscriptions[1].queue)

\* The Assignment entities of the deployment a change is about, as the table
\* has them.
AssignmentsOf(change) == {a \in EntitiesOf(entities, AssignmentT) : a.id = change.entity_id}

\* The consumer handles the event it holds in this step.
Handled == node.event # <<>> /\ node'.handled = node.handled + 1

\* C11: a change taken off the stream becomes Add of its deployment when it
\* is Added or Updated and the Assignment read at that time names this node,
\* Remove when it names another node, Remove when the change is Removed
\* whatever the node, and no event when the change is Added or Updated and
\* the Assignment no longer exists.
C11_EventOfChange ==
    [][Taken =>
         LET change == Head(subscriptions[1].queue)
             id == change.entity_id
         IN IF change.operation = "Removed" THEN node'.event = << RemoveEvent(id) >>
            ELSE IF AssignmentsOf(change) = {} THEN node'.event = <<>>
            ELSE IF \E a \in AssignmentsOf(change) : a.nodeId = ThisNode
                 THEN node'.event = << AddEvent(id) >>
                 ELSE node'.event = << RemoveEvent(id) >>]_vars

\* The consumer took an Added change whose Assignment was gone by then and
\* holds no event for it.
C11_Witness ==
    /\ node.pc = "consuming"
    /\ node.taken # <<>>
    /\ node.taken[1].operation = "Added"
    /\ node.event = <<>>
    /\ node.handled = 0

\* The change taken in this step is the Added of an Assignment that names
\* another node.
TakenOfOtherNode ==
    /\ Taken
    /\ Head(subscriptions[1].queue).operation = "Added"
    /\ \E a \in AssignmentsOf(Head(subscriptions[1].queue)) : a.nodeId # ThisNode

\* C12 as stated: when a deployment is assigned to another node, the stream
\* of this node emits nothing for that assignment.
C12_OtherNodeEmitsNothing ==
    [][TakenOfOtherNode => node'.event = <<>>]_vars

\* C12: when a deployment is assigned to another node, the stream of this
\* node emits Remove of the deployment, never Add; the provider of this node
\* is asked to stop it, and when it does not run there the answer NotRunning
\* is absorbed: the running set and the consumer stay as they were.
C12_OtherNodeEmitsRemove ==
    [][/\ TakenOfOtherNode =>
            node'.event = << RemoveEvent(Head(subscriptions[1].queue).entity_id) >>
       /\ (Handled /\ node.event[1].kind = "Remove") =>
            /\ node'.called = "stop"
            /\ node.event[1].subgraph_id \notin node.running =>
                 /\ node'.answer = "NotRunning"
                 /\ node'.running = node.running
                 /\ node'.pc = node.pc]_vars

\* The Added of an Assignment to the other node was taken and handled: stop
\* answered NotRunning and the consumer goes on.
C12_Witness ==
    /\ node.pc = "consuming"
    /\ node.taken # <<>>
    /\ node.taken[1].operation = "Added"
    /\ \E a \in EntitiesOf(entities, AssignmentT) : a.id = node.taken[1].entity_id /\ a.nodeId # ThisNode
    /\ node.event = <<>>
    /\ node.called = "stop"
    /\ node.answer = "NotRunning"
    /\ node.running = {}

\* C13 as stated: wherever the registrar calls the provider, at the initial
\* start as in the handling of events, the answers AlreadyRunning and
\* NotRunning count as success: neither ends the startup or the consumer.
C13_DuplicatesAbsorbed ==
    node.answer \in {"AlreadyRunning", "NotRunning"} => node.pc # "failed"

\* C14: in the consumer an error of start, whatever it is, is swallowed and
\* the consumer goes on; an error of stop other than NotRunning ends it, and
\* once the consumer has ended no event is handled and the provider is not
\* called again.
C14_StartErrorsSwallowedStopErrorsFatal ==
    [][/\ (Handled /\ node.event[1].kind = "Add") => node'.pc = node.pc
       /\ (Handled /\ node.event[1].kind = "Remove") =>
            node'.pc = IF node'.answer \in {"Ok", "NotRunning"} THEN node.pc ELSE "failed"
       /\ node.pc = "failed" =>
            /\ node'.pc = "failed"
            /\ node'.handled = node.handled
            /\ node'.running = node.running
            /\ node'.event = <<>>]_vars

\* A start failed and the consumer went on to a later event, whose stop
\* failed: the consumer has ended with a change left on its stream.
C14_Witness ==
    /\ node.pc = "failed"
    /\ node.called = "stop"
    /\ node.answer = "Error"
    /\ node.handled >= 2
    /\ node.running # {}
    /\ subscriptions[1].queue # <<>>

\* ------------------------------------------------------ the block pointer

\* This step is a block call of the store.
BlockCalled == calls' = calls + 1 /\ block_call'.op # "none"

\* The number of the block the deployment is at.
Number(ents, subgraph_id) == block_ptr(ents, subgraph_id)[1].number

\* C15 as stated: a successful transact_block_operations or
\* set_block_ptr_with_no_changes strictly increases the block number of the
\* deployment's pointer, a successful revert_block_operations decreases it by
\* exactly one, and nothing else moves the pointer.
C15_PointerMovesForwardOrOneBack ==
    [][\A d \in Deployments(entities) :
          block_ptr(entities', d) # block_ptr(entities, d) =>
             /\ BlockCalled
             /\ block_call'.status = "ok"
             /\ IF block_call'.op = "revert_block_operations"
                THEN Number(entities', d) = Number(entities, d) - 1
                ELSE Number(entities', d) > Number(entities, d)]_vars

\* The keys an operation list writes.
Touched(operations) == {operations[i].key : i \in 1..Len(operations)}

\* The last operation of a list on a key.
LastOn(operations, key) ==
    operations[CHOOSE i \in 1..Len(operations) :
                  /\ operations[i].key = key
                  /\ \A j \in (i + 1)..Len(operations) : operations[j].key # key]

\* The table after has every write of the list: an entity removed last is
\* absent, an entity set last has the attributes set, and no other entity of
\* the deployment's data differs from the table before.
Applied(before, after, operations, subgraph_id) ==
    /\ \A key \in Touched(operations) :
          IF LastOn(operations, key).kind = "Remove" THEN key \notin DOMAIN after
          ELSE /\ key \in DOMAIN after
               /\ \A a \in DOMAIN LastOn(operations, key).data :
                     after[key][a] = LastOn(operations, key).data[a]
    /\ \A key \in (DOMAIN before \cup DOMAIN after) \ Touched(operations) :
          key # <<DeploymentT, subgraph_id>> =>
             key \in DOMAIN before /\ key \in DOMAIN after /\ after[key] = before[key]

\* C16: a transact_block_operations call takes effect in one step: when it
\* succeeds the table has every write of the block and the pointer is the
\* block, having been its parent before; when it fails the table, the
\* pointer, the history and the stream of changes are as before.
C16_BlockAndPointerTogether ==
    [][(BlockCalled /\ block_call'.op = "transact_block_operations") =>
          IF block_call'.status = "ok"
          THEN /\ block_ptr(entities, block_call'.subgraph_id) = block_call'.block_ptr_from
               /\ block_ptr(entities', block_call'.subgraph_id) = block_call'.block_ptr_to
               /\ Applied(entities, entities', block_call'.operations, block_call'.subgraph_id)
          ELSE /\ entities' = entities
               /\ entity_history' = entity_history
               /\ bus' = bus]_vars

\* A block of two writes was refused at its pointer update, after the writes
\* were made inside the transaction.
C16_Witness ==
    /\ block_call.op = "transact_block_operations"
    /\ block_call.status = "AbortUnless"
    /\ block_call.at = 3
    /\ DataOf(entities, 101) # << >>

\* C17 as stated: a successful revert of the block transacted last, back to
\* the pointer that block was transacted from, gives every entity of the
\* deployment the value it had before that block and leaves the pointer one
\* block lower; so two blocks transacted and reverted in turn restore the
\* entities and the pointer of before the first.
C17_RevertRestores ==
    [][(BlockCalled /\ block_call'.op = "revert_block_operations" /\ block_call'.status = "ok") =>
          LET d == block_call'.subgraph_id
              top == undo[d][Len(undo[d])]
          IN /\ block_ptr(entities', d) = block_call'.block_ptr_to
             /\ Number(entities', d) = Number(entities, d) - 1
             /\ (/\ undo[d] # <<>>
                 /\ << top.from >> = block_call'.block_ptr_to
                 /\ << top.to >> = block_call'.block_ptr_from) =>
                   DataOf(entities', d) = top.before]_vars

\* ------------------------------------------------- the subscribers' streams

\* This step is the commit of a registrar call.
Committed == calls' = calls + 1

\* The keys of the entities a step adds, removes or changes.
ChangedKeys ==
    {key \in DOMAIN entities \cup DOMAIN entities' :
        \/ key \notin DOMAIN entities
        \/ key \notin DOMAIN entities'
        \/ entities[key] # entities'[key]}

\* C18 as stated: when a call that committed has returned, every live
\* subscriber has the change records of the pairs it subscribed to: none is
\* still waiting on the stream of the fan-out task.
C18_DeliveredBeforeReturn ==
    (pc[1] = "done" /\ result[1].status = "ok") =>
        \A i \in 1..Len(subscriptions) : \A k \in 1..Len(bus) :
            subscriptions[i].alive => ~Subscribed(subscriptions[i], bus[k])

\* C18: a commit returns with a change record for every entity it added,
\* removed or changed appended to the stream the fan-out task reads, and
\* with the streams of the subscribers as they were: the records reach the
\* subscribers when the fan-out task processes them, after the call returned.
C18_ChangesAwaitFanOut ==
    [][Committed =>
          /\ subscriptions' = subscriptions
          /\ Len(bus') >= Len(bus)
          /\ SubSeq(bus', 1, Len(bus)) = bus
          /\ \A key \in ChangedKeys :
                \E k \in (Len(bus) + 1)..Len(bus') :
                    bus'[k].entity_type = key[1] /\ bus'[k].entity_id = key[2]]_vars

\* A call has committed and returned while a live subscriber of Assignment
\* changes has not been sent the Assignment change of the commit.
C18_Witness ==
    /\ pc[1] = "done"
    /\ result[1].status = "ok"
    /\ \E i \in 1..Len(subscriptions), k \in 1..Len(bus) :
          /\ subscriptions[i].alive
          /\ Subscribed(subscriptions[i], bus[k])
          /\ bus[k].entity_type = AssignmentT
          /\ subscriptions[i].sent = <<>>

\* How often a record is in a sequence.
Count(seq, record) == Cardinality({k \in 1..Len(seq) : seq[k] = record})

\* The change records the fan-out task has processed since the subscription
\* was made.
Since(subscription) == SubSeq(fanned, subscription.from + 1, Len(fanned))

\* C19: into the stream of a subscription whose receiver is alive the
\* fan-out task has sent every change record it processed since the
\* subscription was made whose entity type is in the subscription's set, as
\* often as it processed it, and no record of another type; a full buffer
\* drops none.
C19_EveryMatchingChangeOnce ==
    \A i \in 1..Len(subscriptions) :
        subscriptions[i].alive =>
            \A record \in Range(Since(subscriptions[i])) \cup Range(subscriptions[i].sent) :
                Count(subscriptions[i].sent, record) =
                    IF record.entity_type \in subscriptions[i].entities
                    THEN Count(Since(subscriptions[i]), record)
                    ELSE 0

\* A live subscription holds more records than the buffer of its channel,
\* none taken yet, while the other subscription was sent other records.
C19_Witness ==
    /\ Len(subscriptions) = 2
    /\ subscriptions[1].alive
    /\ Len(subscriptions[1].queue) > ChannelBuffer
    /\ subscriptions[1].sent = subscriptions[1].queue
    /\ subscriptions[2].alive
    /\ subscriptions[2].sent # <<>>
    /\ subscriptions[2].entities # subscriptions[1].entities

\* C20: a commit appends its change records to the end of the stream the
\* fan-out task reads; whenever a subscription is sent a record it is the
\* oldest record of that stream, put behind the records the subscription
\* holds; and the receiver takes the oldest record it holds: each subscriber
\* receives its records in commit order.
C20_CommitOrder ==
    [][/\ Committed => SubSeq(bus', 1, Len(bus)) = bus
       /\ \A i \in 1..Len(subscriptions) :
             /\ subscriptions'[i].sent # subscriptions[i].sent =>
                   /\ bus # <<>>
                   /\ bus' = Tail(bus)
                   /\ subscriptions'[i].sent = Append(subscriptions[i].sent, Head(bus))
                   /\ subscriptions'[i].queue = Append(subscriptions[i].queue, Head(bus))
             /\ (subscriptions'[i].sent = subscriptions[i].sent /\ subscriptions'[i].queue # subscriptions[i].queue) =>
                   subscriptions'[i].queue = Tail(subscriptions[i].queue)]_vars

\* A subscriber has taken the records of one commit and holds those of a
\* later one.
C20_Witness ==
    \E i \in 1..Len(subscriptions) :
        /\ subscriptions[i].alive
        /\ Len(subscriptions[i].sent) >= 3
        /\ subscriptions[i].queue # <<>>
        /\ Len(subscriptions[i].queue) < Len(subscriptions[i].sent)
        /\ bus = <<>>

\* C21: a subscription whose receiver was dropped is eventually removed from
\* the subscriptions map, by the sweeper if by nothing else, also when no
\* change is sent to it any more.
C21_DroppedIsRemoved ==
    \A i \in 1..Len(Subscribers) :
        (Len(subscriptions) >= i /\ ~subscriptions[i].alive)
            ~> (Len(subscriptions) >= i /\ ~subscriptions[i].registered)

\* A subscription that was never sent a change has been removed after its
\* receiver was dropped, and no change waits for the fan-out task.
C21_Witness ==
    /\ bus = <<>>
    /\ \E i \in 1..Len(subscriptions) :
          /\ ~subscriptions[i].alive
          /\ ~subscriptions[i].registered
          /\ subscriptions[i].sent = <<>>

\* The entities the transaction of the latest check had written when it came
\* to its AbortUnless operation.
SeenByCheck ==
    IF Len(checked.operations) = 1 THEN checked.before[1]
    ELSE Write(checked.before[1], checked.operations[1])

\* The AbortUnless operation of the latest check, and the ids its query
\* returns.
CheckedOp == checked.operations[Len(checked.operations)]
ReturnedIds == Ids(execute_query(SeenByCheck, CheckedOp.query))

\* The sequence ascends.
Ascends(seq) == \A i \in 1..(Len(seq) - 1) : seq[i] <= seq[i + 1]

\* The two sequences hold the same elements as often.
SameBag(s, t) == \A x \in Range(s) \cup Range(t) : Count(s, x) = Count(t, x)

\* C22: an AbortUnless operation succeeds if and only if the ids its query
\* returns are the expected ids: position by position when the query has an
\* order_by, and as often each, in whatever order, when it has none.  When it
\* fails the transaction has written nothing and the error is AbortUnless
\* with the expected and the actual ids, sorted when the query has no
\* order_by and as they were when it has one.
C22_AbortUnlessCompares ==
    checked.status # "none" =>
        /\ checked.status \in {"ok", "AbortUnless"}
        /\ checked.status = "ok" <=>
              IF "order_by" \in DOMAIN CheckedOp.query
              THEN ReturnedIds = CheckedOp.entity_ids
              ELSE SameBag(ReturnedIds, CheckedOp.entity_ids)
        /\ checked.status = "ok" => entities = Write(SeenByCheck, CheckedOp) /\ checked.error = <<>>
        /\ checked.status = "AbortUnless" =>
              /\ entities = checked.before[1]
              /\ Len(checked.error) = 1
              /\ IF "order_by" \in DOMAIN CheckedOp.query
                 THEN /\ checked.error[1].expected_entity_ids = CheckedOp.entity_ids
                      /\ checked.error[1].actual_entity_ids = ReturnedIds
                 ELSE /\ SameBag(checked.error[1].expected_entity_ids, CheckedOp.entity_ids)
                      /\ Ascends(checked.error[1].expected_entity_ids)
                      /\ SameBag(checked.error[1].actual_entity_ids, ReturnedIds)
                      /\ Ascends(checked.error[1].actual_entity_ids)

\* An ordered query returned the expected ids in another order and the
\* transaction, which had written an entity, was aborted.
C22_Witness ==
    /\ checked.status = "AbortUnless"
    /\ Len(checked.operations) = 2
    /\ "order_by" \in DOMAIN CheckedOp.query
    /\ ReturnedIds # CheckedOp.entity_ids
    /\ Len(ReturnedIds) >= 2
    /\ SameBag(ReturnedIds, CheckedOp.entity_ids)

\* C23: a transact_block_operations call that succeeds was given pointers
\* with block_ptr_to.number = block_ptr_from.number + 1 and operations of
\* the given deployment only; any other call is rejected and leaves the
\* entities, the block pointer among them, as they were.
C23_RejectsUnlessNextBlock ==
    [][(calls' = calls + 1 /\ block_call'.op = "transact_block_operations") =>
          IF block_call'.status = "ok"
          THEN /\ block_call'.block_ptr_to[1].number = block_call'.block_ptr_from[1].number + 1
               /\ \A i \in 1..Len(block_call'.operations) :
                     SubgraphOf(block_call'.operations[i].key) = block_call'.subgraph_id
          ELSE entities' = entities /\ bus' = bus]_vars

\* A step in which the module handles an event.
HandlesEvent == handled'.events = handled.events + 1

\* C24: handling an event, whether it ends with a result, an error or a
\* panic, leaves every stored entity, the block pointer among them, as it
\* was and commits nothing: store.set and store.remove only add to the
\* operations of the event.
C24_EventLeavesStore ==
    [][HandlesEvent =>
          /\ entities' = entities
          /\ bus' = bus
          /\ block_ptr(entities', ModuleSubgraph) = block_ptr(entities, ModuleSubgraph)
          /\ entity_history' = entity_history]_vars

\* An event was handled whose result has a Set that would change the store,
\* and another ended with an error after a store.set.
C24_Witness ==
    /\ handled.events >= 1
    /\ \/ /\ handled.status = "ok"
          /\ \E i \in 1..Len(handled.operations) :
                /\ handled.operations[i].kind = "Set"
                /\ Write(entities, handled.operations[i]) # entities
       \/ /\ handled.status = "error"
          /\ \E i \in 1..Len(externals.entity_operations) :
                Write(entities, externals.entity_operations[i]) # entities

\* The operations of the store.set and store.remove calls of a handler, in
\* call order, with the key of the module's subgraph.
OperationsOfCalls(handler) ==
    LET writes == SelectSeq(handler, LAMBDA c : c.call \in {"store.set", "store.remove"})
    IN [i \in 1..Len(writes) |->
          IF writes[i].call = "store.set"
          THEN [kind |-> "Set", key |-> << DataT(ModuleSubgraph), writes[i].id >>, data |-> writes[i].data]
          ELSE [kind |-> "Remove", key |-> << DataT(ModuleSubgraph), writes[i].id >>]]

Stops(guest_call) ==
    \/ guest_call.call \in {"unreachable", "env.abort"}
    \/ guest_call.call = "store.get" /\ guest_call.fails

\* The first step at which the handler stops early, 0 if it returns.
FirstStop(handler) ==
    LET at == {i \in 1..Len(handler) : Stops(handler[i])}
    IN IF at = {} THEN 0 ELSE CHOOSE i \in at : \A j \in at : i <= j

C27_AbortIsHandlerError ==
    (/\ handled.events >= 1
     /\ handled.handler # NotExported
     /\ FirstStop(handled.handler) > 0
     /\ handled.handler[FirstStop(handled.handler)].call = "env.abort")
    => handled.status = "error"

\* C28: every store.get of an event returns the entity as the store holds
\* it when the event is handled, none if it holds none, whatever store.set
\* and store.remove calls this event or an earlier event of the block made:
\* the store holds what was committed before the block.
C28_GetReadsCommitted ==
    [][HandlesEvent =>
          \A i \in 1..Len(handled'.got) :
              handled'.got[i].entity =
                  get_entity(entities, handled'.got[i].key[1], handled'.got[i].key[2])]_vars

\* A store.get returned no entity, or another than was set, after a
\* store.set of the same event and after one of an earlier event of the
\* block.
C28_Witness ==
    /\ handled.status = "ok"
    /\ Len(handled.handler) = 2
    /\ handled.handler[1].call = "store.set"
    /\ handled.handler[2].call = "store.get"
    /\ Len(handled.pending) > Len(handled.operations)
    /\ handled.pending[1].kind = "Set"
    /\ handled.got[1].key = handled.pending[1].key
    /\ handled.got[1].entity # << handled.pending[1].data >>
    /\ handled.got[1].entity # << handled.operations[1].data >>

\* The SubgraphVersion entities a step removes, and those a Subgraph owns.
RemovedVersions == {k \in DOMAIN entities : k[1] = VersionT /\ k \notin DOMAIN entities'}
VersionsOwnedBy(ents, subgraph_entity_id) ==
    {k \in DOMAIN ents : k[1] = VersionT /\ ents[k].subgraph = subgraph_entity_id}

\* Caller p commits a remove_subgraph call in this step.
RemovesSubgraph(p) ==
    /\ req[p].op = "remove_subgraph"
    /\ pc[p] = "commit"
    /\ pc'[p] = "done"
    /\ result'[p].status = "ok"

\* C29: a remove_subgraph call that commits removes the Subgraph of the name
\* and exactly the SubgraphVersion entities whose subgraph it is; a step
\* that removes a SubgraphVersion entity is the commit of a remove_subgraph
\* call.
C29_VersionsLiveWithSubgraph ==
    [][/\ \A p \in Callers :
             RemovesSubgraph(p) =>
                \E s \in IdsOf(entities, SubgraphT) :
                   /\ entities[<< SubgraphT, s >>].name = req[p].name
                   /\ << SubgraphT, s >> \notin DOMAIN entities'
                   /\ RemovedVersions = VersionsOwnedBy(entities, s)
       /\ RemovedVersions # {} => \E p \in Callers : RemovesSubgraph(p)]_vars

\* A remove_subgraph call has committed: the Subgraph it read and the
\* versions of that Subgraph are gone, while a version of another Subgraph
\* is still there.
C29_Witness ==
    \E p \in Callers :
        /\ Returned(p, {"ok"})
        /\ req[p].op = "remove_subgraph"
        /\ loc[p].subgraph_entity_id # Null
        /\ << SubgraphT, loc[p].subgraph_entity_id >> \notin DOMAIN entities
        /\ VersionsOwnedBy(entities, loc[p].subgraph_entity_id) = {}
        /\ IdsOf(entities, VersionT) # {}
        /\ Len(bus) >= 2

\* Caller p commits a create_subgraph_version call in this step.
CreatesVersion(p) ==
    /\ req[p].op = "create_subgraph_version"
    /\ pc[p] = "commit"
    /\ pc'[p] = "done"
    /\ result'[p].status = "ok"

\* The step leaves the entity as it is.
Kept(key) == key \in DOMAIN entities' /\ entities'[key] = entities[key]

\* C30: a create_subgraph_version call that commits leaves the
\* SubgraphDeployment entity and the SubgraphDeploymentAssignment entity of
\* its deployment id as they are if they exist, the nodeId of the
\* assignment included.
C30_ExistingDeploymentAndAssignmentKept ==
    [][\A p \in Callers :
          CreatesVersion(p) =>
             /\ << DeploymentT, req[p].hash >> \in DOMAIN entities => Kept(<< DeploymentT, req[p].hash >>)
             /\ << AssignmentT, req[p].hash >> \in DOMAIN entities => Kept(<< AssignmentT, req[p].hash >>)]_vars

\* A create_subgraph_version call for deployment Qm1 and node B has
\* committed: the deployment is at its first block and assigned to node A
\* as before.
C30_Witness ==
    \E p \in Callers :
        /\ Returned(p, {"ok"})
        /\ req[p].op = "create_subgraph_version"
        /\ req[p].hash = 101
        /\ req[p].node = "nodeB"
        /\ << AssignmentT, 101 >> \in DOMAIN entities
        /\ entities[<< AssignmentT, 101 >>].nodeId = "nodeA"
        /\ block_ptr(entities, 101) = << FirstBlock >>

\* ------------------------------------------------ GraphQL subscriptions

\* C31, as stated: execute_subscription returns a stream only for a
\* subscription operation that collects exactly one field; a selection that
\* collects no field fails with EmptyQuery, one that collects more than one
\* with MultipleSubscriptionFields, a query or mutation with NotSupported; and
\* in these cases the resolver is not asked for a stream.
C31_RejectsByKind ==
    graphql.status # "none" =>
        LET request == graphql.request[1]
        IN /\ graphql.status = "Ok" => request.operation = "Subscription" /\ request.collected = 1
           /\ request.operation = "Subscription" /\ request.collected = 0 => graphql.status = "EmptyQuery"
           /\ request.operation = "Subscription" /\ request.collected > 1 => graphql.status = "MultipleSubscriptionFields"
           /\ request.operation \in {"Query", "Mutation"} => graphql.status = "NotSupported"
           /\ graphql.status \in {"EmptyQuery", "MultipleSubscriptionFields", "NotSupported"} => graphql.resolved = 0

\* C31, amended: the same, for a request whose variable values coerce and,
\* for the two errors of the field count, whose schema has a root
\* subscription type; whatever fails, an operation other than a subscription
\* with exactly one field gets no stream and the resolver is not asked.
C31_RejectsByKindOnceCoerced ==
    graphql.status # "none" =>
        LET request == graphql.request[1]
            counted == request.operation = "Subscription" /\ request.variables_coerce /\ request.root_subscription_type
        IN /\ graphql.status = "Ok" => request.operation = "Subscription" /\ request.collected = 1
           /\ counted /\ request.collected = 0 => graphql.status = "EmptyQuery"
           /\ counted /\ request.collected > 1 => graphql.status = "MultipleSubscriptionFields"
           /\ request.operation \in {"Query", "Mutation"} /\ request.variables_coerce => graphql.status = "NotSupported"
           /\ ~(request.operation = "Subscription" /\ request.collected = 1) =>
                 graphql.status # "Ok" /\ graphql.resolved = 0

\* A subscription whose selection collects two fields was refused, the
\* resolver not asked.
C31_Witness ==
    /\ graphql.status = "MultipleSubscriptionFields"
    /\ graphql.request[1].collected = 2
    /\ graphql.request[1].resolver_stream
    /\ graphql.resolved = 0

\* The client polls the response stream in this step.
Polls == graphql.status = "Ok" /\ ~graphql.ended /\ graphql' # graphql /\ graphql'.sent = graphql.sent /\ graphql'.source_ended = graphql.source_ended

\* C32: the response stream yields one result per source event, in the
\* order of the events; a failed execution is yielded as a result with errors
\* and the stream goes on; the response stream ends when the source stream has
\* ended and is exhausted, and only then.
C32_OneResultPerEvent ==
    /\ [](/\ \A i \in 1..Len(graphql.results) :
                /\ graphql.results[i].of = i
                /\ (graphql.results[i].errors # <<>>) = (graphql.results[i].data = <<>>)
          /\ Len(graphql.results) + Len(graphql.source) = graphql.sent
          /\ graphql.ended => graphql.source_ended /\ graphql.source = <<>>)
    /\ [][Polls =>
             IF graphql.source # <<>>
             THEN /\ Len(graphql'.results) = Len(graphql.results) + 1
                  /\ ~graphql'.ended
             ELSE /\ graphql'.results = graphql.results
                  /\ graphql'.ended = graphql.source_ended]_vars

\* The stream yielded an error for the first event, a value for the second
\* and ended after the source had.
C32_Witness ==
    /\ Len(graphql.results) = 2
    /\ graphql.results[1].errors # <<>>
    /\ graphql.results[2].data # <<>>
    /\ graphql.ended

\* ------------------------------------------------ the subscription server

\* The deployment a path names, if any: the subgraph of subgraphs, the id
\* written in the path, or the deployment of the current version of the
\* subgraph whose name the path holds.
Named(path) ==
    LET segments == path_segments(path)
    IN IF segments = << "subgraphs" >> THEN {SUBGRAPHS_ID}
       ELSE IF Len(segments) = 3 /\ segments[1] = "subgraphs" /\ segments[2] = "id"
       THEN {id \in Hashes : segments[3] = (101 :> "Qm1" @@ 102 :> "Qm2")[id]}
       ELSE IF Len(segments) \in {3, 4} /\ segments[1] = "subgraphs" /\ segments[2] = "name"
       THEN {entities[v].deployment :
                v \in {v \in DOMAIN entities :
                          /\ v[1] = VersionT
                          /\ \E k \in DOMAIN entities :
                                /\ k[1] = SubgraphT
                                /\ entities[k].name = join(SubSeq(segments, 3, Len(segments)))
                                /\ entities[k].currentVersion = v[2]}}
       ELSE {}

\* C33: a handshake is accepted with graphql-ws exactly when its path has
\* one of the three forms, names a deployment and is_deployed reports true
\* for it; every other handshake is answered 404, and the server goes on
\* accepting connections.
C33_HandshakeAnswers ==
    /\ websocket.accepting
    /\ \A i \in 1..Len(websocket.handshakes) :
          LET h == websocket.handshakes[i]
              deployed == \E id \in Named(h.path) :
                              \/ id = SUBGRAPHS_ID
                              \/ ~h.deployed_fails /\ << DeploymentT, id >> \in DOMAIN entities
          IN IF deployed THEN h.answer = "graphql-ws" ELSE h.answer = "404"

\* ------------------------------------------------------------ find_one

\* The query find_one is said to run: first = 1, the skip of the query or 0.
Modified(query) ==
    WithRange(query, [first |-> 1, skip |-> IF "range" \in DOMAIN query THEN query.range.skip ELSE 0])

\* The first element of a list as an Option.
FirstOf(list) == IF Len(list) = 0 THEN None ELSE Some(list[1])

\* C34, as stated: for every query, one with first = 0 included, find_one
\* returns the first element of find on the query with first = 1 and its
\* skip, or skip = 0 when it has no range.
C34_FindOneIsFirstOfFind ==
    returned.call = "find_one" =>
        returned.output[1] = FirstOf(find(entities, Modified(returned.input[1])))

\* C34, amended: a query whose range has first = 0 gets None; every other
\* query gets the first element of find on the query with first = 1 and its
\* skip, or skip = 0 when it has no range, which is the only element.
C34_FindOneIsFirstOfFindUnlessNoneAsked ==
    returned.call = "find_one" =>
        LET query == returned.input[1]
        IN IF "range" \in DOMAIN query /\ query.range.first = 0
           THEN returned.output[1] = None
           ELSE /\ returned.output[1] = FirstOf(find(entities, Modified(query)))
                /\ Len(find(entities, Modified(query))) <= 1

\* find_one skipped one row of an ordered query and returned the second.
C34_Witness ==
    /\ returned.call = "find_one"
    /\ "range" \in DOMAIN returned.input[1]
    /\ "order_by" \in DOMAIN returned.input[1]
    /\ returned.input[1].range = [first |-> 2, skip |-> 1]
    /\ returned.output[1].value # <<>>
    /\ returned.output[1] # FirstOf(find(entities, WithRange(returned.input[1], [first |-> 1, skip |-> 0])))

\* ---------------------------------------------------- GraphQL over HTTP

\* The body is a JSON object whose "query" is the text of a document.
HasDocument(body) ==
    /\ body.kind = "object"
    /\ "query" \in DOMAIN body.fields
    /\ body.fields.query.kind = "string"
    /\ body.fields.query.text \in {"{ user { name } }", "{ users { id } }"}

\* The q::Value stands for the JSON value: the same kind and content.
StandsFor(value, json) ==
    \/ json.kind = "string" /\ value.q = "String" /\ value.string = json.text
    \/ json.kind = "number" /\ value.q = "Int" /\ value.int = json.number
    \/ /\ json.kind = "object" /\ value.q = "Object"
       /\ DOMAIN value.object = DOMAIN json.fields
       /\ \A name \in DOMAIN json.fields :
             /\ json.fields[name].kind = "string"
             /\ value.object[name].q = "String"
             /\ value.object[name].string = json.fields[name].text

\* C35: the request resolves to a Query exactly when the body is a JSON
\* object with a "query" that is the text of a document and with "variables"
\* absent, null or an object; absent and null variables give None, an object
\* gives Some of its entries; everything else gives an error and no Query.
C35_RequestResolves ==
    returned.call = "poll" =>
        LET body == returned.input[1]
            out == returned.output[1]
            variables_ok == "variables" \in DOMAIN body.fields => body.fields.variables.kind \in {"null", "object"}
        IN IF HasDocument(body) /\ variables_ok
           THEN /\ out.status = "Ready"
                /\ Len(out.query) = 1
                /\ out.query[1].document.definitions[1].selection_set = body.fields.query.text
                /\ IF "variables" \notin DOMAIN body.fields \/ body.fields.variables.kind = "null"
                   THEN out.query[1].variables = None
                   ELSE /\ out.query[1].variables.status = "Ok"
                        /\ Len(out.query[1].variables.value) = 1
                        /\ DOMAIN out.query[1].variables.value[1] = DOMAIN body.fields.variables.fields
                        /\ \A name \in DOMAIN body.fields.variables.fields :
                              StandsFor(out.query[1].variables.value[1][name], body.fields.variables.fields[name])
           ELSE out.status # "Ready" /\ out.query = <<>>

\* A request with a document and three variables resolved to a Query with
\* the three entries.
C35_Witness ==
    /\ returned.call = "poll"
    /\ returned.output[1].status = "Ready"
    /\ returned.output[1].query[1].variables.status = "Ok"
    /\ returned.output[1].query[1].variables.value # <<>>
    /\ DOMAIN returned.output[1].query[1].variables.value[1] = {"string", "int", "map"}

\* ------------------------------------------- guards inside the transaction

\* The Set and Remove operations placed before position i of a list.
WritesBefore(operations, i) ==
    SelectSeq(SubSeq(operations, 1, i - 1), LAMBDA op : op.kind # "AbortUnless")

\* The table the guard at position i sees inside the transaction.
SeenByGuard(operations, i) ==
    apply_entity_operations_with_conn(entities, WritesBefore(operations, i), 0).ents

\* C36: in every operation list the registrar builds, each AbortUnless guard
\* finds, after the Set and Remove operations placed before it, the same ids
\* as it finds in the store at the start of the transaction, and the guard
\* that aborts the transaction also fails against that store.
C36_GuardsSeeTheStartOfTheTransaction ==
    \A p \in Callers : \A i \in DOMAIN ops[p] :
        ops[p][i].kind = "AbortUnless" =>
            /\ Ids(execute_query(SeenByGuard(ops[p], i), ops[p][i].query))
                  = Ids(execute_query(entities, ops[p][i].query))
            /\ LET tx == apply_entity_operations(entities, ops[p], 0)
               IN tx.status = "AbortUnless" /\ tx.at = i =>
                      ~apply_abort_unless_operation(entities, ops[p][i].query, ops[p][i].entity_ids)

\* A caller is about to commit a list in which a guard follows a Remove of an
\* entity the store holds.
C36_Witness ==
    \E p \in Callers : \E i \in DOMAIN ops[p] : \E j \in 1..(i - 1) :
        /\ pc[p] = "commit"
        /\ ops[p][i].kind = "AbortUnless"
        /\ ops[p][j].kind = "Remove"
        /\ ops[p][j].key \in DOMAIN entities
        /\ SeenByGuard(ops[p], i) # entities

\* ------------------------------------------------ the subscriptions map

\* Thread t inserts its subscription.
Inserts(t) == subscribing.callers[t].pc = "insert" /\ subscribing'.callers[t].pc = "idle"

\* C37: every subscribe call adds exactly one new entry to the subscriptions
\* map, under an id no entry had, and leaves every entry the map had, also
\* when concurrent calls drew the same id.
C37_SubscribeAddsOneEntry ==
    [][\A t \in SubscribeThreads :
          Inserts(t) =>
              /\ subscribing.callers[t].id \notin DOMAIN subscribing.subscriptions
              /\ DOMAIN subscribing'.subscriptions
                    = DOMAIN subscribing.subscriptions \cup {subscribing.callers[t].id}
              /\ \A id \in DOMAIN subscribing.subscriptions :
                    subscribing'.subscriptions[id] = subscribing.subscriptions[id]]_vars

\* ------------------------------------- operations left in the buffer

\* C38: the result of an event holds the operations of the calls of its own
\* handler if the handler returned and nothing if it failed, whatever the
\* start function or an earlier event whose handler failed had left in
\* entity_operations.
C38_LeftOperationsReachNoResult ==
    handled.events >= 1 =>
        /\ handled.operations =
              IF handled.status = "ok" /\ handled.handler # NotExported
              THEN OperationsOfCalls(handled.handler) ELSE <<>>
        /\ handled.after # "ok" /\ handled.status = "ok" =>
              Len(handled.operations) = Len(externals.entity_operations)

\* A handler returned with an operation of its own after a failed handler had
\* left another one.
C38_Witness ==
    /\ handled.events = 2
    /\ handled.status = "ok"
    /\ handled.after = "error"
    /\ handled.left # <<>>
    /\ handled.operations # <<>>
    /\ handled.left[1] # handled.operations[1]

\* The first event of a module returned while its start function had left an
\* operation.
StartLeftOperations ==
    /\ handled.events = 1
    /\ handled.status = "ok"
    /\ handled.after = "none"
    /\ handled.left # <<>>
    /\ handled.operations # <<>>
    /\ handled.left[1] # handled.operations[1]

\* ------------------------------------------------ the fan-out task

\* The channels whose subscription is in the map, with a live Receiver.
Listening ==
    {ch \in 1..Len(subscribing.channels) :
        /\ subscribing.channels[ch].alive
        /\ \E id \in DOMAIN subscribing.subscriptions : subscribing.subscriptions[id].sender = ch}

\* The entity types of the subscription of a channel.
EntitiesOfChannel(ch) ==
    UNION {subscribing.subscriptions[id].entities :
              id \in {i \in DOMAIN subscribing.subscriptions : subscribing.subscriptions[i].sender = ch}}

\* How many of the changes the task took after the subscription of ch was
\* inserted, up to the n-th, match the subscription.
MatchingUpTo(ch, n) ==
    Cardinality({k \in (subscribing.channels[ch].from + 1)..n : fanned[k].entity_type \in EntitiesOfChannel(ch)})

\* C39: the fan-out task handles one change at a time: when a change was
\* sent to a listening subscription, every earlier change was sent to every
\* listening subscription it matches; a queue holds more than the buffer only
\* while the task waits on the send into it; and while the task waits, it
\* takes no change off the stream and sends nothing to any subscription.
C39_OneChangeAtATime ==
    /\ [](\A i \in Listening, j \in Listening : \A l \in 1..Len(fanned) :
             (/\ l > subscribing.channels[i].from
              /\ fanned[l].entity_type \in EntitiesOfChannel(i)
              /\ Len(subscribing.channels[i].sent) >= MatchingUpTo(i, l))
             => Len(subscribing.channels[j].sent) >= MatchingUpTo(j, l - 1))
    /\ [](\A ch \in 1..Len(subscribing.channels) :
             subscribing.channels[ch].alive /\ Len(subscribing.channels[ch].queue) > ChannelBuffer
             => subscribing.task.parked = ch)
    /\ [][subscribing.task.parked # 0 =>
             /\ fanned' = fanned
             /\ \A ch \in 1..Len(subscribing.channels) :
                   subscribing'.channels[ch].sent = subscribing.channels[ch].sent]_vars

\* The task waits on the send into the full queue of a subscription that is
\* not read, while a change that another listening subscription matches
\* waits on the stream.
C39_Witness ==
    /\ subscribing.task.parked # 0
    /\ subscribing.task.parked \in Listening
    /\ bus # <<>>
    /\ \E j \in Listening \ {subscribing.task.parked} :
          /\ Head(bus).entity_type \in EntitiesOfChannel(j)
          /\ subscribing.channels[j].sent # <<>>

\* C40: a step of the fan-out task or of the sweeper leaves in the map, as it
\* is, every subscription whose Receiver is alive, also when its queue is
\* full; the entries it leaves are unchanged.
C40_LiveSubscriptionsStay ==
    [][subscribing'.callers = subscribing.callers =>
          \A id \in DOMAIN subscribing.subscriptions :
              /\ subscribing.channels[subscribing.subscriptions[id].sender].alive =>
                    id \in DOMAIN subscribing'.subscriptions
              /\ id \in DOMAIN subscribing'.subscriptions =>
                    subscribing'.subscriptions[id] = subscribing.subscriptions[id]]_vars

====
